---- MODULE Spec2Model ----
(***************************************************************************)
(* Message-pool block selection of the node (selection.rs) and the channel *)
(* accessor of the payment-channel manager (paychannel.rs).                *)
(*                                                                         *)
(* Gas is measured in scaled units: the protocol constants BLOCK_GAS_LIMIT,*)
(* MIN_GAS and MAX_BLOCK_MSGS keep their names and their roles but carry   *)
(* small values, so that a block fills up, the tail loop stops on min_gas  *)
(* and the final truncation happens with pools of a few messages.          *)
(* gas_perf (an f64 in the code) is the exact ratio gas_reward / gas_limit;*)
(* the ticket quality (an f64 in [0,1]) is held in hundredths.             *)
(***************************************************************************)
EXTENDS Integers, Sequences, FiniteSets, TLC

\* ---------------------------------------------------------------- bounds
\* most messages the pool holds in the selection specification
MaxPool == 4
\* most pending messages per sender in the reorg specification
MaxPend == 1

\* ------------------------------------------------------ program constants
\* const MAX_BLOCK_MSGS: usize = 16000 (scaled)
MAX_BLOCK_MSGS == 3
\* types::BLOCK_GAS_LIMIT (scaled)
BLOCK_GAS_LIMIT == 5
\* let min_gas = 1298450 / gas_guess::MIN_GAS (scaled)
MIN_GAS == 2
\* if tq > 0.84, in hundredths
TQ_CUTOFF == 84

\* ------------------------------------------------------------ value sets
\* addresses, ordered as integers; 1 signs with secp256k1, 2 with BLS
Senders == {1, 2}
SigType(a) == IF a = 2 THEN "bls" ELSE "secp"
GasLimits == {1, 2}
\* (gas_premium, gas_fee_cap) of the messages the model draws
FeeKinds == {<<1, 5>>, <<3, 5>>, <<3, 1>>}
BaseFees == {0, 2}
TicketQualities == {84, 100}

Msg(a, s, g, p, c) ==
    [from |-> a, sequence |-> s, gas_limit |-> g, gas_premium |-> p, gas_fee_cap |-> c]

Min(x, y) == IF x <= y THEN x ELSE y

\* ------------------------------------------------------------ msg_chain
\* min(gas_premium, gas_fee_cap - base_fee)
effective_premium(m, base_fee) == Min(m.gas_premium, m.gas_fee_cap - base_fee)

\* effective_premium * gas_limit
get_gas_reward(m, base_fee) == effective_premium(m, base_fee) * m.gas_limit

\* gas_fee_cap * gas_limit
required_funds(m) == m.gas_fee_cap * m.gas_limit

\* A chain node: the messages of one sender in sequence order with their
\* aggregates.  gas_perf is gas_reward / gas_limit and is 0 for an empty node.
NewChain(a, msgs, reward, limit) ==
    [sender |-> a, msgs |-> msgs, gas_reward |-> reward, gas_limit |-> limit, valid |-> TRUE]

GasPerfNegative(c) == c.gas_limit > 0 /\ c.gas_reward < 0

\* sign of gas_perf(a) - gas_perf(b), by cross multiplication
PerfCmp(a, b) ==
    LET an == IF a.gas_limit > 0 THEN a.gas_reward ELSE 0
        ad == IF a.gas_limit > 0 THEN a.gas_limit ELSE 1
        bn == IF b.gas_limit > 0 THEN b.gas_reward ELSE 0
        bd == IF b.gas_limit > 0 THEN b.gas_limit ELSE 1
    IN  IF an * bd > bn * ad THEN 1 ELSE IF an * bd < bn * ad THEN -1 ELSE 0

\* MsgChain::compare: gas_perf, then gas_reward, then the lower address first
compare(a, b) ==
    IF PerfCmp(a, b) # 0 THEN (IF PerfCmp(a, b) > 0 THEN "Greater" ELSE "Less")
    ELSE IF a.gas_reward # b.gas_reward
         THEN (IF a.gas_reward > b.gas_reward THEN "Greater" ELSE "Less")
    ELSE IF a.sender # b.sender
         THEN (IF a.sender < b.sender THEN "Greater" ELSE "Less")
    ELSE "Equal"

\* the node with its last message dropped
DropLast(c, base_fee) ==
    LET m == c.msgs[Len(c.msgs)]
    IN  [c EXCEPT !.msgs = SubSeq(c.msgs, 1, Len(c.msgs) - 1),
                  !.gas_reward = c.gas_reward - get_gas_reward(m, base_fee),
                  !.gas_limit = c.gas_limit - m.gas_limit]

RECURSIVE TrimLoop(_, _, _)
TrimLoop(c, gas_limit, base_fee) ==
    IF Len(c.msgs) > 0 /\ c.gas_limit > gas_limit /\ ~GasPerfNegative(c)
    THEN TrimLoop(DropLast(c, base_fee), gas_limit, base_fee)
    ELSE c

\* MsgChain::trim: drop messages from the end until the node fits or its
\* gas_perf is negative; an empty node or one of negative gas_perf is invalid
trim(c, gas_limit, base_fee) ==
    LET t == TrimLoop(c, gas_limit, base_fee)
    IN  IF Len(t.msgs) = 0 \/ GasPerfNegative(t) THEN [t EXCEPT !.valid = FALSE] ELSE t

\* ------------------------------------------------- create_message_chains
\* the messages of a set in sequence order
RECURSIVE SortBySequence(_)
SortBySequence(mset) ==
    IF mset = {} THEN <<>>
    ELSE LET m == CHOOSE x \in mset : \A y \in mset : x.sequence <= y.sequence
         IN  <<m>> \o SortBySequence(mset \ {m})

\* the longest prefix whose messages meet their on-chain precondition: the
\* sequence is the next one of the sender and the balance covers the funds
RECURSIVE ValidPrefix(_, _, _, _)
ValidPrefix(msgs, i, cur_seq, balance) ==
    IF i > Len(msgs) THEN <<>>
    ELSE IF msgs[i].sequence # cur_seq THEN <<>>
    ELSE IF balance < required_funds(msgs[i]) THEN <<>>
    ELSE <<msgs[i]>> \o ValidPrefix(msgs, i + 1, cur_seq + 1,
                                     balance - required_funds(msgs[i]))

\* walk the prefix front to back and cut where the next message would
\* strictly lower the gas_perf of the running chain
RECURSIVE CutChains(_, _, _, _, _)
CutChains(a, msgs, i, cur, base_fee) ==
    IF i > Len(msgs) THEN <<cur>>
    ELSE LET m == msgs[i]
             ext == NewChain(a, Append(cur.msgs, m),
                             cur.gas_reward + get_gas_reward(m, base_fee),
                             cur.gas_limit + m.gas_limit)
         IN  IF PerfCmp(ext, cur) < 0
             THEN <<cur>> \o CutChains(a, msgs, i + 1,
                                       NewChain(a, <<m>>, get_gas_reward(m, base_fee), m.gas_limit),
                                       base_fee)
             ELSE CutChains(a, msgs, i + 1, ext, base_fee)

\* two neighbouring chains of one sender made one
JoinChains(c, d) ==
    NewChain(c.sender, c.msgs \o d.msgs, c.gas_reward + d.gas_reward, c.gas_limit + d.gas_limit)

\* join a chain into its predecessor while it does not have a strictly lower
\* gas_perf, so that the chains of a sender come in strictly descending gas_perf
RECURSIVE MergeBack(_)
MergeBack(cs) ==
    IF \E i \in 1..(Len(cs) - 1) : PerfCmp(cs[i + 1], cs[i]) >= 0
    THEN LET i == CHOOSE k \in 1..(Len(cs) - 1) :
                     /\ PerfCmp(cs[k + 1], cs[k]) >= 0
                     /\ \A j \in (k + 1)..(Len(cs) - 1) : PerfCmp(cs[j + 1], cs[j]) < 0
         IN  MergeBack(SubSeq(cs, 1, i - 1) \o <<JoinChains(cs[i], cs[i + 1])>>
                       \o SubSeq(cs, i + 2, Len(cs)))
    ELSE cs

create_message_chains(a, mset, base_fee, state_seq, state_balance) ==
    LET msgs == ValidPrefix(SortBySequence(mset), 1, state_seq, state_balance)
    IN  IF Len(msgs) = 0 THEN <<>>
        ELSE MergeBack(CutChains(a, msgs, 2,
                                 NewChain(a, <<msgs[1]>>, get_gas_reward(msgs[1], base_fee),
                                          msgs[1].gas_limit),
                                 base_fee))

\* ------------------------------------------------------- merge_and_trim
\* InsertChain for chains.sort_by(|a, b| a.compare(&b)): least first
RECURSIVE InsertChain_Ascending(_, _)
InsertChain_Ascending(sorted, c) ==
    IF sorted = <<>> THEN <<c>>
    ELSE IF compare(c, sorted[1]) = "Less" THEN <<c>> \o sorted
    ELSE <<sorted[1]>> \o InsertChain_Ascending(Tail(sorted), c)

\* chains.sort_by(|a, b| b.compare(&a)): stable, greatest first
RECURSIVE InsertChain(_, _)
InsertChain(sorted, c) ==
    IF sorted = <<>> THEN <<c>>
    ELSE IF compare(c, sorted[1]) = "Greater" THEN <<c>> \o sorted
    ELSE <<sorted[1]>> \o InsertChain(Tail(sorted), c)

RECURSIVE SortChains(_)
SortChains(cs) ==
    IF cs = <<>> THEN <<>>
    ELSE InsertChain(SortChains(SubSeq(cs, 1, Len(cs) - 1)), cs[Len(cs)])

\* MergeLoop without the test that the chain fits in the gas that is left
RECURSIVE MergeLoop_NoFit(_, _, _, _, _)
MergeLoop_NoFit(chains, i, result, gas_limit, picked) ==
    IF i > Len(chains)
    THEN [result |-> result, gas_limit |-> gas_limit, picked |-> picked, last |-> Len(chains) + 1]
    ELSE IF GasPerfNegative(chains[i])
    THEN [result |-> result, gas_limit |-> gas_limit, picked |-> picked, last |-> Len(chains) + 1]
    ELSE MergeLoop_NoFit(chains, i + 1, result \o chains[i].msgs,
                         gas_limit - chains[i].gas_limit, Append(picked, chains[i]))

\* MergeLoop without the break on a chain of negative gas_perf
RECURSIVE MergeLoop_NoPerfBreak(_, _, _, _, _)
MergeLoop_NoPerfBreak(chains, i, result, gas_limit, picked) ==
    IF i > Len(chains)
    THEN [result |-> result, gas_limit |-> gas_limit, picked |-> picked, last |-> Len(chains) + 1]
    ELSE IF chains[i].gas_limit <= gas_limit
    THEN MergeLoop_NoPerfBreak(chains, i + 1, result \o chains[i].msgs,
                               gas_limit - chains[i].gas_limit, Append(picked, chains[i]))
    ELSE [result |-> result, gas_limit |-> gas_limit, picked |-> picked, last |-> i]

\* step 3: merge chains in order while they fit; last is the index of the
\* first chain that does not fit, Len(chains) + 1 when there is none
RECURSIVE MergeLoop(_, _, _, _, _)
MergeLoop(chains, i, result, gas_limit, picked) ==
    IF i > Len(chains)
    THEN [result |-> result, gas_limit |-> gas_limit, picked |-> picked, last |-> Len(chains) + 1]
    ELSE IF GasPerfNegative(chains[i])
    THEN [result |-> result, gas_limit |-> gas_limit, picked |-> picked, last |-> Len(chains) + 1]
    ELSE IF chains[i].gas_limit <= gas_limit
    THEN MergeLoop(chains, i + 1, result \o chains[i].msgs,
                   gas_limit - chains[i].gas_limit, Append(picked, chains[i]))
    ELSE [result |-> result, gas_limit |-> gas_limit, picked |-> picked, last |-> i]

\* push the trimmed chain down: swap it with its right neighbour until it
\* compares Greater than that neighbour
RECURSIVE PushDown(_, _)
PushDown(chains, i) ==
    IF i > Len(chains) - 1 THEN chains
    ELSE IF compare(chains[i], chains[i + 1]) = "Greater" THEN chains
    ELSE PushDown([chains EXCEPT ![i] = chains[i + 1], ![i + 1] = chains[i]], i + 1)

\* select the next valid and fitting chains, from index j on; i = j - last
RECURSIVE ScanLoop(_, _, _, _, _, _)
ScanLoop(chains, last, j, result, gas_limit, picked) ==
    IF j > Len(chains)
    THEN [exit |-> "break", chains |-> chains, last |-> last, result |-> result,
          gas_limit |-> gas_limit, picked |-> picked]
    ELSE IF ~chains[j].valid
    THEN ScanLoop(chains, last, j + 1, result, gas_limit, picked)
    ELSE IF GasPerfNegative(chains[j])
    THEN [exit |-> "break", chains |-> chains, last |-> last, result |-> result,
          gas_limit |-> gas_limit, picked |-> picked]
    ELSE IF chains[j].gas_limit <= gas_limit
    THEN ScanLoop([chains EXCEPT ![j].msgs = <<>>], last, j + 1, result \o chains[j].msgs,
                  gas_limit - chains[j].gas_limit,
                  IF chains[j].msgs = <<>> THEN picked ELSE Append(picked, chains[j]))
    ELSE [exit |-> "continue", chains |-> chains, last |-> last + (j - last), result |-> result,
          gas_limit |-> gas_limit, picked |-> picked]

\* TailLoop that stops one chain early: last < chains.len() - 1
RECURSIVE TailLoop_StopsEarly(_, _, _, _, _, _, _)
TailLoop_StopsEarly(chains, last, result, gas_limit, picked, base_fee, min_gas) ==
    IF ~(gas_limit >= min_gas /\ last < Len(chains))
    THEN [result |-> result, gas_limit |-> gas_limit, picked |-> picked]
    ELSE LET trimmed == [chains EXCEPT ![last] = trim(@, gas_limit, base_fee)]
             pushed == IF trimmed[last].valid THEN PushDown(trimmed, last) ELSE trimmed
             scan == ScanLoop(pushed, last, last, result, gas_limit, picked)
         IN  IF scan.exit = "continue"
             THEN TailLoop_StopsEarly(scan.chains, scan.last, scan.result, scan.gas_limit,
                                      scan.picked, base_fee, min_gas)
             ELSE [result |-> scan.result, gas_limit |-> scan.gas_limit, picked |-> scan.picked]

\* TailLoop whose scan starts at the first chain instead of chains[last]
RECURSIVE TailLoop_ScansFromFirst(_, _, _, _, _, _, _)
TailLoop_ScansFromFirst(chains, last, result, gas_limit, picked, base_fee, min_gas) ==
    IF ~(gas_limit >= min_gas /\ last <= Len(chains))
    THEN [result |-> result, gas_limit |-> gas_limit, picked |-> picked]
    ELSE LET trimmed == [chains EXCEPT ![last] = trim(@, gas_limit, base_fee)]
             pushed == IF trimmed[last].valid THEN PushDown(trimmed, last) ELSE trimmed
             scan == ScanLoop(pushed, last, 1, result, gas_limit, picked)
         IN  IF scan.exit = "continue"
             THEN TailLoop_ScansFromFirst(scan.chains, scan.last, scan.result, scan.gas_limit,
                                          scan.picked, base_fee, min_gas)
             ELSE [result |-> scan.result, gas_limit |-> scan.gas_limit, picked |-> scan.picked]

\* 'tail_loop: trim chains[last], push it down, and scan from last on for the
\* chains that fit
RECURSIVE TailLoop(_, _, _, _, _, _, _)
TailLoop(chains, last, result, gas_limit, picked, base_fee, min_gas) ==
    IF ~(gas_limit >= min_gas /\ last <= Len(chains))
    THEN [result |-> result, gas_limit |-> gas_limit, picked |-> picked]
    ELSE LET trimmed == [chains EXCEPT ![last] = trim(@, gas_limit, base_fee)]
             pushed == IF trimmed[last].valid THEN PushDown(trimmed, last) ELSE trimmed
             scan == ScanLoop(pushed, last, last, result, gas_limit, picked)
         IN  IF scan.exit = "continue"
             THEN TailLoop(scan.chains, scan.last, scan.result, scan.gas_limit,
                           scan.picked, base_fee, min_gas)
             ELSE [result |-> scan.result, gas_limit |-> scan.gas_limit, picked |-> scan.picked]

\* TailSteps without the trim of chains[last]
RECURSIVE TailSteps_NoTrim(_, _, _, _, _, _, _)
TailSteps_NoTrim(chains, last, gas_limit, base_fee, min_gas, n, cap) ==
    IF n > cap \/ ~(gas_limit >= min_gas /\ last <= Len(chains))
    THEN n
    ELSE LET pushed == IF chains[last].valid THEN PushDown(chains, last) ELSE chains
             scan == ScanLoop(pushed, last, last, <<>>, gas_limit, <<>>)
         IN  IF scan.exit = "continue"
             THEN TailSteps_NoTrim(scan.chains, scan.last, scan.gas_limit, base_fee, min_gas,
                                   n + 1, cap)
             ELSE n + 1

\* the iterations of 'tail_loop, counted from n; the count stops when it
\* passes cap
RECURSIVE TailSteps(_, _, _, _, _, _, _)
TailSteps(chains, last, gas_limit, base_fee, min_gas, n, cap) ==
    IF n > cap \/ ~(gas_limit >= min_gas /\ last <= Len(chains))
    THEN n
    ELSE LET trimmed == [chains EXCEPT ![last] = trim(@, gas_limit, base_fee)]
             pushed == IF trimmed[last].valid THEN PushDown(trimmed, last) ELSE trimmed
             scan == ScanLoop(pushed, last, last, <<>>, gas_limit, <<>>)
         IN  IF scan.exit = "continue"
             THEN TailSteps(scan.chains, scan.last, scan.gas_limit, base_fee, min_gas,
                            n + 1, cap)
             ELSE n + 1

\* the number of messages of a list of chains
RECURSIVE NumMsgs(_)
NumMsgs(chains) == IF chains = <<>> THEN 0 ELSE Len(chains[1].msgs) + NumMsgs(Tail(chains))

\* the iterations of 'tail_loop in merge_and_trim(chains0, _, base_fee,
\* gas_limit, min_gas), counted up to one more than the messages handed in
TailIterations(chains0, base_fee, gas_limit, min_gas) ==
    LET chains == SortChains(chains0)
    IN  IF chains # <<>> /\ GasPerfNegative(chains[1])
        THEN 0
        ELSE LET m == MergeLoop(chains, 1, <<>>, gas_limit, <<>>)
             IN  TailSteps(chains, m.last, m.gas_limit, base_fee, min_gas, 0, NumMsgs(chains))

\* returns the merged and trimmed messages with the gas limit that is left;
\* picked lists the chains, as trimmed, whose messages were appended
merge_and_trim(chains0, result, base_fee, gas_limit, min_gas) ==
    LET chains == SortChains(chains0)
    IN  IF chains # <<>> /\ GasPerfNegative(chains[1])
        THEN [result |-> <<>>, gas_limit |-> gas_limit, picked |-> <<>>]
        ELSE LET m == MergeLoop(chains, 1, result, gas_limit, <<>>)
             IN  TailLoop(chains, m.last, m.result, m.gas_limit, m.picked, base_fee, min_gas)

\* ------------------------------------------------------------ the state
VARIABLES
    pending,        \* MessagePool.pending: sender -> its pending messages
    cur_tipset,     \* MessagePool.cur_tipset
    priority_addrs, \* MpoolConfig.priority_addrs
    block_msgs,     \* the provider: tipset -> messages of its block
    sel,            \* the last select_messages call and what it returned
    store,          \* PaychStore: the ChannelInfo of the channel, if tracked
    store_lock,     \* ChannelAccessor.store (RwLock): who holds it
    paych_state,    \* the chain: actor balance and paych::State of the channel
    acc,            \* the last accessor call and what it returned
    funds_req_queue, \* ChannelAccessor.funds_req_queue
    tasks,          \* the spawned process_queue tasks: where each one is
    pushed,         \* the messages pushed to the message pool
    promises,       \* per get_paych caller: the results published to it
    cancelled,      \* the get_paych callers that marked their request inactive
    watcher         \* the spawned chain-watcher task: where it is, what it holds

\* the message pool, the funds-request queue, the payment-channel accessor
mvars == <<pending, cur_tipset, priority_addrs, block_msgs, sel>>
fvars == <<funds_req_queue, tasks, pushed, promises, cancelled, watcher>>
pvars == <<store, store_lock, paych_state, acc, funds_req_queue, tasks, pushed, promises,
           cancelled, watcher>>
vars == <<pending, cur_tipset, priority_addrs, block_msgs, sel,
          store, store_lock, paych_state, acc, funds_req_queue, tasks, pushed, promises,
          cancelled, watcher>>

\* the provider's tipsets: 0 is genesis, 1 and 2 are siblings on top of it,
\* 3 is on top of 2
Tipsets == {0, 1, 2, 3}
Parent(t) == IF t = 3 THEN 2 ELSE 0
Epoch(t) == IF t = 0 THEN 0 ELSE IF t = 3 THEN 2 ELSE 1

\* the tipsets from genesis up to and including t
RECURSIVE Ancestors(_)
Ancestors(t) == IF t = 0 THEN {0} ELSE {t} \cup Ancestors(Parent(t))

\* get_actor_after(actor, ts): the sequence and the balance of the actor
StateSequence(blocks, a, t) ==
    Cardinality({m \in UNION {blocks[u] : u \in Ancestors(t)} : m.from = a})
StateBalance(a) == IF a = 1 THEN 100 ELSE 12

NoCall == [status |-> "none"]

\* messages_for_block(block) -> (bls_msgs, secp_msgs)
BlsMsgs(blocks, t) == {m \in blocks[t] : SigType(m.from) = "bls"}
SecpMsgs(blocks, t) == {m \in blocks[t] : SigType(m.from) = "secp"}

\* ------------------------------------------------------ run_head_change
\* add_to_selected_msgs: the message is now keyed by (sender, sequence)
add_to_selected_msgs(m, rmsgs) ==
    IF m.from \in DOMAIN rmsgs
    THEN [rmsgs EXCEPT ![m.from] = {x \in @ : x.sequence # m.sequence} \cup {m}]
    ELSE [a \in DOMAIN rmsgs \cup {m.from} |-> IF a = m.from THEN {m} ELSE rmsgs[a]]

\* the entry (from, sequence) taken out of a sender -> messages map
RemoveKey(map, from, sequence) ==
    IF from \in DOMAIN map
    THEN [map EXCEPT ![from] = {x \in @ : x.sequence # sequence}]
    ELSE map

\* remove_from_selected_msgs: (from, sequence) leaves rmsgs and the live
\* pending map; the result is the pair of both maps
remove_from_selected_msgs(from, live, sequence, rmsgs) ==
    [live |-> RemoveKey(live, from, sequence), rmsgs |-> RemoveKey(rmsgs, from, sequence)]

\* WalkBack that takes every load_tipset as successful
RECURSIVE WalkBack_IgnoresFailure(_, _, _, _, _)
WalkBack_IgnoresFailure(left, right, left_chain, right_chain, bad) ==
    IF left = right
    THEN [left_chain |-> left_chain, right_chain |-> right_chain, err |-> FALSE]
    ELSE IF Epoch(left) > Epoch(right)
    THEN WalkBack_IgnoresFailure(Parent(left), right, Append(left_chain, left), right_chain, bad)
    ELSE WalkBack_IgnoresFailure(left, Parent(right), left_chain, Append(right_chain, right), bad)

\* WalkBack that does not stop at the common ancestor: both sides go back to
\* genesis
RECURSIVE WalkBack_ToGenesis(_, _, _, _, _)
WalkBack_ToGenesis(left, right, left_chain, right_chain, bad) ==
    IF left = 0 /\ right = 0
    THEN [left_chain |-> left_chain, right_chain |-> right_chain, err |-> FALSE]
    ELSE IF Epoch(left) > Epoch(right)
    THEN WalkBack_ToGenesis(Parent(left), right, Append(left_chain, left), right_chain, bad)
    ELSE WalkBack_ToGenesis(left, Parent(right), left_chain, Append(right_chain, right), bad)

\* the walk back to the common ancestor: pop the tipset of higher epoch, the
\* right one when the epochs are equal, and load its parent; bad holds the
\* tipsets for which load_tipset fails, and the first failure ends the walk
RECURSIVE WalkBack(_, _, _, _, _)
WalkBack(left, right, left_chain, right_chain, bad) ==
    IF left = right
    THEN [left_chain |-> left_chain, right_chain |-> right_chain, err |-> FALSE]
    ELSE IF Epoch(left) > Epoch(right)
    THEN IF Parent(left) \in bad
         THEN [left_chain |-> Append(left_chain, left), right_chain |-> right_chain, err |-> TRUE]
         ELSE WalkBack(Parent(left), right, Append(left_chain, left), right_chain, bad)
    ELSE IF Parent(right) \in bad
         THEN [left_chain |-> left_chain, right_chain |-> Append(right_chain, right), err |-> TRUE]
         ELSE WalkBack(left, Parent(right), left_chain, Append(right_chain, right), bad)

RECURSIVE AddAll(_, _)
AddAll(msgs, rmsgs) ==
    IF msgs = {} THEN rmsgs
    ELSE LET m == CHOOSE x \in msgs : TRUE
         IN  AddAll(msgs \ {m}, add_to_selected_msgs(m, rmsgs))

RECURSIVE RemoveAll(_, _)
RemoveAll(msgs, maps) ==
    IF msgs = {} THEN maps
    ELSE LET m == CHOOSE x \in msgs : TRUE
         IN  RemoveAll(msgs \ {m},
                       remove_from_selected_msgs(m.from, maps.live, m.sequence, maps.rmsgs))

\* for ts in left_chain: only the secp messages of each block are added back
RECURSIVE ApplyLeft(_, _, _, _)
ApplyLeft(blocks, left_chain, i, rmsgs) ==
    IF i > Len(left_chain) THEN rmsgs
    ELSE ApplyLeft(blocks, left_chain, i + 1, AddAll(SecpMsgs(blocks, left_chain[i]), rmsgs))

\* ApplyRight that removes the secp messages only
RECURSIVE ApplyRight_SecpOnly(_, _, _, _)
ApplyRight_SecpOnly(blocks, right_chain, i, maps) ==
    IF i > Len(right_chain) THEN maps
    ELSE ApplyRight_SecpOnly(blocks, right_chain, i + 1,
                             RemoveAll(SecpMsgs(blocks, right_chain[i]), maps))

\* for ts in right_chain: the secp and then the bls messages are removed
RECURSIVE ApplyRight(_, _, _, _)
ApplyRight(blocks, right_chain, i, maps) ==
    IF i > Len(right_chain) THEN maps
    ELSE ApplyRight(blocks, right_chain, i + 1,
                    RemoveAll(BlsMsgs(blocks, right_chain[i]),
                              RemoveAll(SecpMsgs(blocks, right_chain[i]), maps)))

\* err is TRUE when a load_tipset of the walk failed: the function returns
\* from the walk, before any message is added or removed
run_head_change(blocks, live, from, to, rmsgs, bad) ==
    LET w == WalkBack(from, to, <<>>, <<>>, bad)
    IN  IF w.err
        THEN [live |-> live, rmsgs |-> rmsgs, err |-> TRUE]
        ELSE [err |-> FALSE] @@
             ApplyRight(blocks, w.right_chain, 1,
                        [live |-> live, rmsgs |-> ApplyLeft(blocks, w.left_chain, 1, rmsgs)])

\* the pending snapshot for the target tipset, and the live map afterwards
get_pending_messages(blocks, live, cur_ts, target_tipset, bad) ==
    IF Epoch(cur_ts) = Epoch(target_tipset) /\ cur_ts = target_tipset
    THEN [live |-> live, rmsgs |-> live, err |-> FALSE]
    ELSE run_head_change(blocks, live, cur_ts, target_tipset, live, bad)

\* ------------------------------------------------------------ selection
\* the chains of the senders of S, sender after sender
RECURSIVE ChainsOf(_, _, _, _, _)
ChainsOf(S, pend, base_fee, blocks, ts) ==
    IF S = {} THEN <<>>
    ELSE LET a == CHOOSE x \in S : \A y \in S : x <= y
         IN  create_message_chains(a, pend[a], base_fee, StateSequence(blocks, a, ts),
                                   StateBalance(a))
             \o ChainsOf(S \ {a}, pend, base_fee, blocks, ts)

\* select_priority_messages that leaves the priority actors in the pending set
select_priority_messages_KeepsTaken(pend, base_fee, blocks, ts, priority) ==
    LET taken == priority \cap DOMAIN pend
        chains == ChainsOf(taken, pend, base_fee, blocks, ts)
    IN  IF chains = <<>>
        THEN [result |-> <<>>, gas_limit |-> BLOCK_GAS_LIMIT, picked |-> <<>>, pending |-> pend]
        ELSE [pending |-> pend] @@ merge_and_trim(chains, <<>>, base_fee, BLOCK_GAS_LIMIT, MIN_GAS)

\* the priority actors leave the pending set; their chains are merged into an
\* empty result against the whole block
select_priority_messages(pend, base_fee, blocks, ts, priority) ==
    LET taken == priority \cap DOMAIN pend
        chains == ChainsOf(taken, pend, base_fee, blocks, ts)
        rest == [a \in DOMAIN pend \ taken |-> pend[a]]
    IN  IF chains = <<>>
        THEN [result |-> <<>>, gas_limit |-> BLOCK_GAS_LIMIT, picked |-> <<>>, pending |-> rest]
        ELSE [pending |-> rest] @@ merge_and_trim(chains, <<>>, base_fee, BLOCK_GAS_LIMIT, MIN_GAS)

\* what a selection path hands back: status is "ok" with the messages,
\* "error" when get_pending_messages failed, or "panic" when the path ends in
\* unimplemented!(); the other fields record the stages for the properties
Outcome(status, msgs, snapshot, prio, chains, picked) ==
    [status |-> status, msgs |-> msgs, snapshot |-> snapshot,
     prio_result |-> prio.result, prio_gas |-> prio.gas_limit,
     chains |-> chains, picked |-> picked]

NoPrio == [result |-> <<>>, gas_limit |-> BLOCK_GAS_LIMIT, picked |-> <<>>]

select_messages_greedy(snapshot, base_fee, blocks, ts, priority) ==
    IF DOMAIN snapshot = {}
    THEN Outcome("ok", <<>>, snapshot, NoPrio, <<>>, <<>>)
    ELSE LET prio == select_priority_messages(snapshot, base_fee, blocks, ts, priority)
         IN  IF prio.gas_limit < MIN_GAS
             THEN Outcome("ok", prio.result, snapshot, prio, <<>>, prio.picked)
             ELSE LET chains == ChainsOf(DOMAIN prio.pending, prio.pending, base_fee, blocks, ts)
                      m == merge_and_trim(chains, prio.result, base_fee, prio.gas_limit, MIN_GAS)
                  IN  Outcome("ok", m.result, snapshot, prio, chains,
                              IF m.result = <<>> THEN <<>> ELSE prio.picked \o m.picked)

\* the partition into blocks and the effective performance are computed on
\* locals and are lost when the path reaches unimplemented!()
select_messages_optimal(snapshot, base_fee, blocks, ts, priority) ==
    IF DOMAIN snapshot = {}
    THEN Outcome("ok", <<>>, snapshot, NoPrio, <<>>, <<>>)
    ELSE LET prio == select_priority_messages(snapshot, base_fee, blocks, ts, priority)
         IN  IF prio.gas_limit < MIN_GAS
             THEN Outcome("ok", prio.result, snapshot, prio, <<>>, prio.picked)
             ELSE Outcome("panic", <<>>, snapshot, prio,
                          ChainsOf(DOMAIN prio.pending, prio.pending, base_fee, blocks, ts), <<>>)

\* msgs.truncate(MAX_BLOCK_MSGS)
Truncate(msgs) ==
    IF Len(msgs) > MAX_BLOCK_MSGS THEN SubSeq(msgs, 1, MAX_BLOCK_MSGS) ELSE msgs

select_messages(snapshot, base_fee, blocks, ts, tq, priority) ==
    LET r == IF tq > TQ_CUTOFF
             THEN select_messages_greedy(snapshot, base_fee, blocks, ts, priority)
             ELSE select_messages_optimal(snapshot, base_fee, blocks, ts, priority)
    IN  [r EXCEPT !.msgs = Truncate(@)]

\* ------------------------------------------------------- payment channel
\* the address of the channel, and another address
Ch == 10
OtherCh == 11
Lanes == {0, 1}

\* actor::paych::LaneState
LaneState(nonce, redeemed) == [nonce |-> nonce, redeemed |-> redeemed]

\* actor::paych::SignedVoucher: merges is the length of the merges list,
\* signature is "good" when it verifies against the channel's from address,
\* "bad" when it does not, "none" when the field is None
SignedVoucher(channel_addr, lane, nonce, amount, merges, signature) ==
    [channel_addr |-> channel_addr, lane |-> lane, nonce |-> nonce, amount |-> amount,
     merges |-> merges, signature |-> signature]

VoucherInfo(voucher, proof, submitted) ==
    [voucher |-> voucher, proof |-> proof, submitted |-> submitted]

\* the store holds no channel, or the ChannelInfo of one channel
NotTracked == [tracked |-> FALSE]
\* create_msg and add_funds_msg are 0 for None
ChannelInfo(channel, vouchers, next_lane) ==
    [tracked |-> TRUE, channel |-> channel, vouchers |-> vouchers, next_lane |-> next_lane,
     create_msg |-> 0, add_funds_msg |-> 0, amount |-> 0, pending_amount |-> 0]

\* PaychStore::by_address and PaychStore::vouchers_for_paych find the channel
by_address(st, ch) == st.tracked /\ st.channel = ch

\* ChannelInfo::has_voucher: the index of the stored voucher equal to sv, or 0
has_voucher(ci, sv) ==
    IF \E i \in 1..Len(ci.vouchers) : ci.vouchers[i].voucher = sv
    THEN CHOOSE i \in 1..Len(ci.vouchers) :
            /\ ci.vouchers[i].voucher = sv
            /\ \A j \in 1..(i - 1) : ci.vouchers[j].voucher # sv
    ELSE 0

\* ChannelInfo::was_voucher_submitted
was_voucher_submitted(ci, sv) ==
    has_voucher(ci, sv) # 0 /\ ci.vouchers[has_voucher(ci, sv)].submitted

\* PaychStore::mark_voucher_submitted: the voucher and the vouchers of its
\* lane with a lower nonce are flagged, and the channel info is put
mark_voucher_submitted(ci, sv) ==
    [ci EXCEPT !.vouchers =
        [i \in 1..Len(@) |->
            IF \/ @[i].voucher = sv
               \/ @[i].voucher.lane = sv.lane /\ @[i].voucher.nonce < sv.nonce
            THEN [@[i] EXCEPT !.submitted = TRUE]
            ELSE @[i]]]

\* next_sequence_for_lane: one more than the highest nonce stored on the lane
RECURSIVE MaxSequence(_, _, _, _)
MaxSequence(vouchers, i, lane, max_sequence) ==
    IF i > Len(vouchers) THEN max_sequence
    ELSE MaxSequence(vouchers, i + 1, lane,
                     IF vouchers[i].voucher.lane = lane /\ max_sequence < vouchers[i].voucher.nonce
                     THEN vouchers[i].voucher.nonce ELSE max_sequence)

next_sequence_for_lane(ci, lane) == MaxSequence(ci.vouchers, 1, lane, 0) + 1

\* lane_state, the loop over the stored vouchers: a lane that is missing
\* starts at (0, 0); a voucher whose nonce is not below the lane's nonce
\* overwrites (nonce, redeemed)
RECURSIVE ApplyVouchers(_, _, _)
ApplyVouchers(lane_states, vouchers, i) ==
    IF i > Len(vouchers) THEN lane_states
    ELSE LET v == vouchers[i].voucher
             ls == IF v.lane \in DOMAIN lane_states
                   THEN lane_states
                   ELSE [l \in DOMAIN lane_states \cup {v.lane} |->
                            IF l = v.lane THEN LaneState(0, 0) ELSE lane_states[l]]
         IN  IF v.nonce < ls[v.lane].nonce
             THEN ApplyVouchers(ls, vouchers, i + 1)
             ELSE ApplyVouchers([ls EXCEPT ![v.lane] = LaneState(v.nonce, v.amount)],
                                vouchers, i + 1)

\* lane_state(state, ch): the lane states of the chain with the stored
\* vouchers applied. It takes the read lock of the store: lock is the state
\* of that lock when the call is made, and with the write lock held the
\* call waits ("blocked")
lane_state(state, ch, st, lock) ==
    IF lock = "write" THEN [status |-> "blocked"]
    ELSE IF ~by_address(st, ch) THEN [status |-> "err", err |-> "channel not tracked"]
    ELSE [status |-> "ok", lane_states |-> ApplyVouchers(state.lane_states, st.vouchers, 1)]

RECURSIVE SumNonces(_, _)
SumNonces(lane_states, S) ==
    IF S = {} THEN 0
    ELSE LET l == CHOOSE x \in S : TRUE
         IN  lane_states[l].nonce + SumNonces(lane_states, S \ {l})

\* total_redeemed_with_voucher: the loop adds ls.nonce of every lane
total_redeemed_with_voucher(lane_states, sv) ==
    IF sv.merges # 0 THEN [status |-> "err", err |-> "merges not supported"]
    ELSE LET total == SumNonces(lane_states, DOMAIN lane_states)
         IN  [status |-> "ok",
              total |-> IF sv.lane \in DOMAIN lane_states
                        THEN IF sv.nonce > lane_states[sv.lane].nonce
                             THEN total + (sv.amount - lane_states[sv.lane].redeemed)
                             ELSE total
                        ELSE total + sv.amount]

\* what an accessor operation hands back: "ok" with a value, "err" with an
\* error, or "hang" when the task waits for a lock it holds itself; store is
\* the channel info the store holds afterwards
Ok(value, st) == [status |-> "ok", value |-> value, err |-> "", store |-> st]
Err(err, st) == [status |-> "err", value |-> 0, err |-> err, store |-> st]
Hang(st) == [status |-> "hang", value |-> 0, err |-> "", store |-> st]

\* check_voucher_valid(ch, sv): act and pch_state are what load_paych_state
\* answers; lock is the state of the store lock when the call is made
check_voucher_valid(ch, sv, st, chain, lock) ==
    IF sv.channel_addr # ch THEN Err("channel mismatch", st)
    ELSE IF sv.signature = "none" THEN Err("no sig", st)
    ELSE IF sv.signature # "good" THEN Err("bad signature", st)
    ELSE LET ls == lane_state(chain, ch, st, lock)
         IN  IF ls.status = "blocked" THEN Hang(st)
             ELSE IF ls.status = "err" THEN Err(ls.err, st)
             ELSE IF sv.lane \notin DOMAIN ls.lane_states THEN Err("no lane state", st)
             ELSE IF ls.lane_states[sv.lane].nonce >= sv.nonce THEN Err("nonce too low", st)
             ELSE IF ls.lane_states[sv.lane].redeemed >= sv.amount
                  THEN Err("amount regression", st)
             ELSE LET total_redeemed == total_redeemed_with_voucher(ls.lane_states, sv)
                  IN  IF total_redeemed.status = "err" THEN Err(total_redeemed.err, st)
                      ELSE IF chain.balance < total_redeemed.total + chain.to_send
                           THEN Err("not enough funds", st)
                      ELSE IF sv.merges # 0 THEN Err("merges", st)
                      ELSE Ok(ls.lane_states, st)

\* add_voucher that puts the voucher before it is checked
add_voucher_PutsBeforeCheck(ch, sv, proof, min_delta, st, chain, lock) ==
    IF lock # "free" THEN Hang(st)
    ELSE IF ~by_address(st, ch) THEN Err("channel not tracked", st)
    ELSE LET put == [st EXCEPT !.vouchers = Append(@, VoucherInfo(sv, proof, FALSE))]
             valid == check_voucher_valid(ch, sv, st, chain, "write")
         IN  IF valid.status = "ok" THEN Ok(0, put) ELSE [valid EXCEPT !.store = put]

\* add_voucher that takes every re-add as a change of proof
add_voucher_AlwaysReplacesProof(ch, sv, proof, min_delta, st, chain, lock) ==
    IF lock # "free" THEN Hang(st)
    ELSE IF ~by_address(st, ch) THEN Err("channel not tracked", st)
    ELSE IF has_voucher(st, sv) # 0
         THEN Ok(1, [st EXCEPT !.vouchers[has_voucher(st, sv)].proof = proof])
         ELSE check_voucher_valid(ch, sv, st, chain, "write")

\* add_voucher that drops the stored voucher when its proof changes
add_voucher_ReAddDropsVoucher(ch, sv, proof, min_delta, st, chain, lock) ==
    IF lock # "free" THEN Hang(st)
    ELSE IF ~by_address(st, ch) THEN Err("channel not tracked", st)
    ELSE IF has_voucher(st, sv) # 0
         THEN IF proof # <<>> /\ st.vouchers[has_voucher(st, sv)].proof # proof
              THEN Ok(1, [st EXCEPT !.vouchers = SelectSeq(@, LAMBDA vi : vi.voucher # sv)])
              ELSE Ok(0, st)
         ELSE check_voucher_valid(ch, sv, st, chain, "write")

\* add_voucher(ch, sv, proof, min_delta): the write lock of the store is
\* taken first and held to the end, check_voucher_valid runs under it
add_voucher(ch, sv, proof, min_delta, st, chain, lock) ==
    IF lock # "free" THEN Hang(st)
    ELSE IF ~by_address(st, ch) THEN Err("channel not tracked", st)
    ELSE IF has_voucher(st, sv) # 0
         THEN IF proof # <<>> /\ st.vouchers[has_voucher(st, sv)].proof # proof
              THEN Ok(1, [st EXCEPT !.vouchers[has_voucher(st, sv)].proof = proof])
              ELSE Ok(0, st)
    ELSE LET valid == check_voucher_valid(ch, sv, st, chain, "write")
         IN  IF valid.status # "ok" THEN valid
             ELSE LET redeemed == IF sv.lane \in DOMAIN valid.value
                                  THEN valid.value[sv.lane].redeemed ELSE 0
                      delta == sv.amount - redeemed
                 IN  IF min_delta > delta THEN Err("token amount too low", st)
                     ELSE Ok(delta,
                             [st EXCEPT !.vouchers = Append(@, VoucherInfo(sv, proof, FALSE)),
                                        !.next_lane = IF @ <= sv.lane THEN @ + 1 ELSE @])

\* create_voucher(ch, voucher): the read lock of the store is held from the
\* first line to the end; the signing of the voucher is commented out, so
\* the voucher keeps the signature of the draft
create_voucher(ch, voucher, st, chain, lock) ==
    IF lock = "write" THEN Hang(st)
    ELSE IF ~by_address(st, ch) THEN Err("channel not tracked", st)
    ELSE LET sv == [voucher EXCEPT !.channel_addr = ch,
                                   !.nonce = next_sequence_for_lane(st, voucher.lane)]
             added == add_voucher(ch, sv, <<>>, 0, st, chain, "read")
         IN  IF added.status = "ok" THEN Ok(sv, added.store) ELSE added

\* submit_voucher that puts the channel info with the pushed voucher before
\* the simulated call
submit_voucher_PutsBeforeCall(ch, sv, secret, st, lock, call_ok, push_ok) ==
    IF lock # "free" THEN Hang(st)
    ELSE IF ~by_address(st, ch) THEN Err("channel not tracked", st)
    ELSE IF has_voucher(st, sv) # 0 /\ was_voucher_submitted(st, sv)
         THEN Err("already submitted", st)
    ELSE LET ci == IF has_voucher(st, sv) # 0 THEN st
                   ELSE [st EXCEPT !.vouchers = Append(@, VoucherInfo(sv, secret, FALSE))]
         IN  IF ~call_ok THEN Err("call failed", ci)
             ELSE IF ~push_ok THEN Err("push failed", ci)
             ELSE Ok(1, mark_voucher_submitted(ci, sv))

\* submit_voucher(ch, sv, secret): call_ok and push_ok are the outcomes of
\* the simulated call and of the push to the message pool; the value is 1
\* for the CID of the pushed message
submit_voucher(ch, sv, secret, st, lock, call_ok, push_ok) ==
    IF lock # "free" THEN Hang(st)
    ELSE IF ~by_address(st, ch) THEN Err("channel not tracked", st)
    ELSE IF has_voucher(st, sv) # 0 /\ was_voucher_submitted(st, sv)
         THEN Err("already submitted", st)
    ELSE LET ci == IF has_voucher(st, sv) # 0 THEN st
                   ELSE [st EXCEPT !.vouchers = Append(@, VoucherInfo(sv, secret, FALSE))]
         IN  IF ~call_ok THEN Err("call failed", st)
             ELSE IF ~push_ok THEN Err("push failed", st)
             ELSE Ok(1, mark_voucher_submitted(ci, sv))

\* PaychStore::allocate_lane: returns next_lane and increments it
allocate_lane(ch, st, lock) ==
    IF lock # "free" THEN Hang(st)
    ELSE IF ~by_address(st, ch) THEN Err("channel not tracked", st)
    ELSE Ok(st.next_lane, [st EXCEPT !.next_lane = @ + 1])

\* -------------------------------------------------------------- actions
PoolSize(p) == Cardinality(UNION {p[a] : a \in DOMAIN p})

NextSequence(p, a) ==
    IF a \in DOMAIN p /\ p[a] # {}
    THEN (CHOOSE s \in {m.sequence : m \in p[a]} : \A m \in p[a] : m.sequence <= s) + 1
    ELSE StateSequence(block_msgs, a, cur_tipset)

\* MessagePool::add: the next message of a sender joins the pending set, if
\* the balance of the sender covers the funds the message requires
Add(a, g, k) ==
    /\ sel = NoCall
    /\ PoolSize(pending) < MaxPool
    /\ required_funds(Msg(a, 0, g, k[1], k[2])) <= StateBalance(a)
    /\ pending' = add_to_selected_msgs(Msg(a, NextSequence(pending, a), g, k[1], k[2]), pending)
    /\ sel' = NoCall
    /\ UNCHANGED <<cur_tipset, priority_addrs, block_msgs>>
    /\ UNCHANGED pvars

\* MessagePool::set_config
SetConfig(addrs) ==
    /\ sel = NoCall
    /\ priority_addrs # addrs
    /\ priority_addrs' = addrs
    /\ sel' = NoCall
    /\ UNCHANGED <<pending, cur_tipset, block_msgs>>
    /\ UNCHANGED pvars

\* MessagePool::select_messages(ts, tq); base_fee is what the provider
\* answers to chain_compute_base_fee(ts), bad the tipsets it fails to load;
\* both paths leave with the error of get_pending_messages (the ? operator)
SelectMessages(ts, tq, base_fee, bad) ==
    /\ sel = NoCall
    /\ \E p \in {get_pending_messages(block_msgs, pending, cur_tipset, ts, bad)} :
        /\ \E r \in {IF p.err
                      THEN Outcome("error", <<>>, <<>>, NoPrio, <<>>, <<>>)
                      ELSE select_messages(p.rmsgs, base_fee, block_msgs, ts, tq,
                                           priority_addrs)} :
            sel' = r @@ [ts |-> ts, tq |-> tq, base_fee |-> base_fee, cur |-> cur_tipset,
                         live |-> pending, priority |-> priority_addrs, bad |-> bad]
        /\ pending' = p.live
        /\ UNCHANGED <<cur_tipset, priority_addrs, block_msgs>>
        /\ UNCHANGED pvars

\* the caller takes the returned list (or sees the panic) and goes on
TakeResult ==
    /\ sel # NoCall
    /\ sel' = NoCall
    /\ UNCHANGED <<pending, cur_tipset, priority_addrs, block_msgs>>
    /\ UNCHANGED pvars

PriorityChoices == {{}, {1}}
EmptyChain == [t \in Tipsets |-> {}]
NoAcc == [op |-> "none"]
\* no chain-watcher task was spawned
NoWatcher == [op |-> "none"]

\* no channel, no accessor call
PaychIdle ==
    /\ store = NotTracked
    /\ store_lock = "free"
    /\ paych_state = [balance |-> 0, to_send |-> 0, lane_states |-> <<>>]
    /\ acc = NoAcc
    /\ funds_req_queue = <<>>
    /\ tasks = <<>>
    /\ pushed = <<>>
    /\ promises = <<>>
    /\ cancelled = {}
    /\ watcher = NoWatcher

\* an empty pool, no selection call
MpoolIdle ==
    /\ pending = <<>>
    /\ cur_tipset = 1
    /\ priority_addrs = {}
    /\ block_msgs = EmptyChain
    /\ sel = NoCall

Init ==
    /\ pending = <<>>
    /\ cur_tipset = 1
    /\ priority_addrs = {}
    /\ block_msgs = EmptyChain
    /\ sel = NoCall
    /\ PaychIdle

Next ==
    \/ \E a \in Senders, g \in GasLimits, k \in FeeKinds : Add(a, g, k)
    \/ \E addrs \in PriorityChoices : SetConfig(addrs)
    \/ \E tq \in TicketQualities, bf \in BaseFees : SelectMessages(cur_tipset, tq, bf, {})
    \/ TakeResult

Spec == Init /\ [][Next]_vars

\* the pool without priority addresses under greedy selection: every list of
\* chains goes to merge_and_trim as it is
NextMerge ==
    \/ \E a \in Senders, g \in GasLimits, k \in FeeKinds : Add(a, g, k)
    \/ \E bf \in BaseFees : SelectMessages(cur_tipset, 100, bf, {})
    \/ TakeResult

SpecMerge == Init /\ [][NextMerge]_vars

\* ---------------------------------------------------- the reorg universe
\* the messages of the blocks and of the pool: one gas unit, premium 1
PlainMsg(a, s) == Msg(a, s, 1, 1, 5)

\* a chain in which every tipset carries, for each sender, either nothing
\* or the sender's next message
ChainOf(n) ==
    [t \in Tipsets |->
        IF t = 0 THEN {}
        ELSE {PlainMsg(a, Cardinality({u \in Ancestors(Parent(t)) : u # 0 /\ n[u][a] = 1})) :
                a \in {x \in Senders : n[t][x] = 1}}]

\* the pool holds, for each sender, a run of messages on top of its
\* committed sequence at the current tipset
PoolOf(blocks, cur, len) ==
    LET S == {a \in Senders : len[a] > 0}
    IN  [a \in S |-> {PlainMsg(a, StateSequence(blocks, a, cur) + i) : i \in 0..(len[a] - 1)}]

InitReorg ==
    /\ \E n \in [Tipsets \ {0} -> [Senders -> {0, 1}]] : block_msgs = ChainOf(n)
    /\ cur_tipset \in Tipsets
    /\ \E len \in [Senders -> 0..MaxPend] : pending = PoolOf(block_msgs, cur_tipset, len)
    /\ priority_addrs = {}
    /\ sel = NoCall
    /\ PaychIdle

\* the provider loads every tipset, or fails on genesis, or fails on tipset 2
LoadFailures == {{}, {0}, {2}}

NextReorg ==
    \/ \E ts \in Tipsets, tq \in TicketQualities, bf \in BaseFees, bad \in LoadFailures :
            SelectMessages(ts, tq, bf, bad)
    \/ TakeResult

SpecReorg == InitReorg /\ [][NextReorg]_vars

\* -------------------------------------------------- the voucher universe
\* most vouchers the store holds for the channel, and the highest next_lane
MaxVouchers == 2
MaxNextLane == 2

\* the vouchers the callers present: on lane 0 (nonce 1, amount 3), (2, 3)
\* and (2, 2), on lane 1 (2, 3), and (0, 2, 3) with a bad signature, with a
\* merge, and for another channel
GoodVouchers ==
    {SignedVoucher(Ch, 0, 1, 3, 0, "good"), SignedVoucher(Ch, 0, 2, 3, 0, "good"),
     SignedVoucher(Ch, 0, 2, 2, 0, "good"), SignedVoucher(Ch, 1, 2, 3, 0, "good")}
OtherVoucher == SignedVoucher(OtherCh, 0, 2, 3, 0, "good")
Vouchers ==
    GoodVouchers \cup {SignedVoucher(Ch, 0, 2, 3, 0, "bad"), SignedVoucher(Ch, 0, 2, 3, 1, "good"),
                       OtherVoucher}
\* a first voucher for lane 1, which the smaller chain state does not hold
NewLaneVoucher == SignedVoucher(Ch, 1, 1, 2, 0, "good")
Proofs == {<<>>, <<1>>}
MinDeltas == {0, 2}

\* the channel on chain: lane 0 at (nonce 1, redeemed 2), or both lanes at
\* (1, 2); the actor balance and to_send
OnChainLanes == {0 :> LaneState(1, 2), 0 :> LaneState(1, 2) @@ 1 :> LaneState(1, 2)}
Funds == {<<2, 0>>, <<4, 0>>, <<4, 1>>}
PaychStates ==
    {[balance |-> f[1], to_send |-> f[2], lane_states |-> ls] : f \in Funds, ls \in OnChainLanes}

\* the call is recorded with the channel info the store held before it
Called(op, ch, sv, proof, min_delta, r) ==
    [op |-> op, ch |-> ch, sv |-> sv, proof |-> proof, min_delta |-> min_delta,
     before |-> store, status |-> r.status, value |-> r.value, err |-> r.err]

HasRoom(sv) == Len(store.vouchers) < MaxVouchers \/ has_voucher(store, sv) # 0

AddVoucher(ch, sv, proof, min_delta) ==
    LET r == add_voucher(ch, sv, proof, min_delta, store, paych_state, store_lock)
    IN  /\ acc = NoAcc /\ store_lock = "free"
        /\ HasRoom(sv)
        /\ store' = r.store
        /\ store_lock' = IF r.status = "hang" THEN "write" ELSE "free"
        /\ acc' = Called("add_voucher", ch, sv, proof, min_delta, r)
        /\ UNCHANGED paych_state
        /\ UNCHANGED <<mvars, fvars>>

CreateVoucher(draft) ==
    LET r == create_voucher(Ch, draft, store, paych_state, store_lock)
    IN  /\ acc = NoAcc /\ store_lock = "free"
        /\ Len(store.vouchers) < MaxVouchers
        /\ store' = r.store
        /\ store_lock' = IF r.status = "hang" THEN "read" ELSE "free"
        /\ acc' = Called("create_voucher", Ch, draft, <<>>, 0, r)
        /\ UNCHANGED paych_state
        /\ UNCHANGED <<mvars, fvars>>

CheckVoucherValid(sv) ==
    LET r == check_voucher_valid(Ch, sv, store, paych_state, store_lock)
    IN  /\ acc = NoAcc /\ store_lock = "free"
        /\ acc' = Called("check_voucher_valid", Ch, sv, <<>>, 0, r)
        /\ UNCHANGED <<store, store_lock, paych_state>>
        /\ UNCHANGED <<mvars, fvars>>

\* the push is tried only after the simulated call succeeded, so a call has
\* three outcomes; the vouchers submitted are those of the channel
SubmitVoucher(sv, secret, call_ok, push_ok) ==
    LET r == submit_voucher(Ch, sv, secret, store, store_lock, call_ok, push_ok)
    IN  /\ acc = NoAcc /\ store_lock = "free"
        /\ HasRoom(sv)
        /\ store' = r.store
        /\ acc' = Called("submit_voucher", Ch, sv, secret, 0, r)
                    @@ [call_ok |-> call_ok, push_ok |-> push_ok]
        /\ UNCHANGED <<store_lock, paych_state>>
        /\ UNCHANGED <<mvars, fvars>>

AllocateLane ==
    LET r == allocate_lane(Ch, store, store_lock)
    IN  /\ acc = NoAcc /\ store_lock = "free"
        /\ store.next_lane < MaxNextLane
        /\ store' = r.store
        /\ acc' = Called("allocate_lane", Ch, 0, <<>>, 0, r)
        /\ UNCHANGED <<store_lock, paych_state>>
        /\ UNCHANGED <<mvars, fvars>>

\* the caller takes what the operation returned and goes on; a caller
\* whose operation hangs never does
TakeAccResult ==
    /\ acc # NoAcc /\ acc.status # "hang"
    /\ acc' = NoAcc
    /\ UNCHANGED <<store, store_lock, paych_state>>
    /\ UNCHANGED <<mvars, fvars>>

InitVoucher ==
    /\ MpoolIdle
    /\ store = ChannelInfo(Ch, <<>>, 0)
    /\ store_lock = "free"
    /\ paych_state \in PaychStates
    /\ acc = NoAcc
    /\ funds_req_queue = <<>>
    /\ tasks = <<>>
    /\ pushed = <<>>
    /\ promises = <<>>
    /\ cancelled = {}
    /\ watcher = NoWatcher

NextVoucher ==
    \/ \E sv \in Vouchers, proof \in Proofs, d \in MinDeltas : AddVoucher(Ch, sv, proof, d)
    \/ \E proof \in Proofs : AddVoucher(OtherCh, OtherVoucher, proof, 0)
    \/ \E l \in Lanes, sig \in {"none", "good"} :
            CreateVoucher(SignedVoucher(Ch, l, 0, 3, 0, sig))
    \/ \E sv \in Vouchers \cup {NewLaneVoucher} : CheckVoucherValid(sv)
    \/ \E sv \in Vouchers \ {OtherVoucher}, secret \in Proofs,
          out \in {"ok", "call failed", "push failed"} :
            SubmitVoucher(sv, secret, out # "call failed", out # "push failed")
    \/ AllocateLane
    \/ TakeAccResult

SpecVoucher == InitVoucher /\ [][NextVoucher]_vars

\* ------------------------------------------------------------ properties
RECURSIVE SumGas(_)
SumGas(msgs) == IF msgs = <<>> THEN 0 ELSE msgs[1].gas_limit + SumGas(Tail(msgs))

RECURSIVE SumReward(_, _)
SumReward(msgs, base_fee) ==
    IF msgs = <<>> THEN 0 ELSE get_gas_reward(msgs[1], base_fee) + SumReward(Tail(msgs), base_fee)

Returned == sel # NoCall /\ sel.status = "ok"
Greedy == sel # NoCall /\ sel.tq > TQ_CUTOFF
SnapshotMsgs == UNION {sel.snapshot[a] : a \in DOMAIN sel.snapshot}
FromSender(msgs, a) == SelectSeq(msgs, LAMBDA m : m.from = a)
RECURSIVE ConcatMsgs(_)
ConcatMsgs(cs) == IF cs = <<>> THEN <<>> ELSE cs[1].msgs \o ConcatMsgs(Tail(cs))

\* C1: every list select_messages returns has a total gas_limit of at most
\* BLOCK_GAS_LIMIT and at most MAX_BLOCK_MSGS messages
C1_GasAndCountWithinBlock ==
    Returned => /\ SumGas(sel.msgs) <= BLOCK_GAS_LIMIT
                /\ Len(sel.msgs) <= MAX_BLOCK_MSGS

\* C1 witness: more messages than the cap were merged within the gas of one
\* block, and the greedy path returned a list cut at the cap
C1_Witness ==
    /\ Returned /\ Greedy
    /\ Len(ConcatMsgs(sel.picked)) > MAX_BLOCK_MSGS
    /\ Len(sel.msgs) = MAX_BLOCK_MSGS

\* C2: in every returned list the messages of one sender come in ascending
\* sequence order without a gap, from the sender's committed sequence on
C2_SenderSequencesContiguous ==
    Returned =>
        \A a \in Senders :
            LET own == FromSender(sel.msgs, a)
            IN  \A i \in 1..Len(own) :
                    own[i].sequence = StateSequence(block_msgs, a, sel.ts) + i - 1

\* C3: no returned message has a negative effective premium at the base fee
C3_NoNegativePremiumMessage ==
    Returned => \A i \in 1..Len(sel.msgs) : effective_premium(sel.msgs[i], sel.base_fee) >= 0

\* C3 as amended: every returned message belongs to a chain that was merged
\* with a non-negative aggregate gas reward
C3_NoNegativeChain ==
    Returned =>
        \A i \in 1..Len(sel.msgs) :
            \E k \in 1..Len(sel.picked) :
                /\ \E j \in 1..Len(sel.picked[k].msgs) : sel.picked[k].msgs[j] = sel.msgs[i]
                /\ SumReward(sel.picked[k].msgs, sel.base_fee) >= 0

\* C3 witness: a returned list that carries a message of negative premium
C3_Witness ==
    /\ Returned
    /\ \E i \in 1..Len(sel.msgs) : effective_premium(sel.msgs[i], sel.base_fee) < 0

\* C4: every returned message of a priority address precedes every returned
\* message of another address, and no chain of the general stage belongs to
\* a priority address
C4_PriorityFirst ==
    sel # NoCall =>
        /\ Returned =>
             \A i, j \in 1..Len(sel.msgs) :
                (sel.msgs[i].from \in sel.priority /\ sel.msgs[j].from \notin sel.priority) => i < j
        /\ \A k \in 1..Len(sel.chains) : sel.chains[k].sender \notin sel.priority

\* C4 witness: a priority sender's chain of lower gas_perf was returned ahead
\* of another sender's chain
C4_Witness ==
    /\ Returned /\ Len(sel.msgs) >= 2
    /\ sel.msgs[1].from \in sel.priority
    /\ sel.msgs[Len(sel.msgs)].from \notin sel.priority
    /\ effective_premium(sel.msgs[1], sel.base_fee)
         < effective_premium(sel.msgs[Len(sel.msgs)], sel.base_fee)
    /\ sel.msgs[1].gas_limit = sel.msgs[Len(sel.msgs)].gas_limit

\* every chain built from the pending snapshot, priority senders included
AllChains == ChainsOf(DOMAIN sel.snapshot, sel.snapshot, sel.base_fee, block_msgs, sel.ts)
ChainMsgs(c) == {c.msgs[i] : i \in 1..Len(c.msgs)}
Position(msgs, m) == CHOOSE i \in 1..Len(msgs) : msgs[i] = m
InList(msgs, m) == \E i \in 1..Len(msgs) : msgs[i] = m

\* all pending chains have a non-negative gas_perf and fit in one block together
AllChainsFit ==
    /\ \A k \in 1..Len(AllChains) : ~GasPerfNegative(AllChains[k])
    /\ SumGas(ConcatMsgs(AllChains)) <= BLOCK_GAS_LIMIT

\* every message of a pays a higher premium than the message of b with the
\* same sequence, at equal gas limits
PaysMore(a, b) ==
    /\ a \in DOMAIN sel.snapshot /\ b \in DOMAIN sel.snapshot /\ a # b
    /\ sel.snapshot[a] # {}
    /\ {m.sequence : m \in sel.snapshot[a]} = {m.sequence : m \in sel.snapshot[b]}
    /\ \A m \in sel.snapshot[a], n \in sel.snapshot[b] :
          /\ m.gas_limit = n.gas_limit
          /\ m.sequence = n.sequence =>
                effective_premium(m, sel.base_fee) > effective_premium(n, sel.base_fee)

\* C5: when all pending chains are non-negative and fit together, greedy
\* selection returns every pending message, the chains in descending gas_perf
\* order, and all messages of a sender that pays more ahead of the other's
C5_GreedyReturnsAllInPerfOrder ==
    (Returned /\ Greedy /\ AllChainsFit) =>
        /\ {sel.msgs[i] : i \in 1..Len(sel.msgs)} = SnapshotMsgs
        /\ Len(sel.msgs) = Cardinality(SnapshotMsgs)
        /\ \A a, b \in Senders :
              PaysMore(a, b) =>
                  sel.msgs = SortBySequence(sel.snapshot[a]) \o SortBySequence(sel.snapshot[b])

\* the added conditions of C5 as amended: no pending sender is a priority
\* address, every pending message is in a chain, and the cap is not reached
C5_Conditions ==
    /\ Returned /\ Greedy /\ AllChainsFit
    /\ sel.priority \cap DOMAIN sel.snapshot = {}
    /\ Len(ConcatMsgs(AllChains)) = Cardinality(SnapshotMsgs)
    /\ Cardinality(SnapshotMsgs) <= MAX_BLOCK_MSGS

\* C5 as amended: under the added conditions greedy selection returns every
\* pending message, each chain of higher gas_perf wholly ahead of each chain
\* of lower gas_perf; two senders that form one chain each come sender after
\* sender, the one that pays more first
C5_GreedyReturnsChainsInPerfOrder ==
    C5_Conditions =>
        /\ {sel.msgs[i] : i \in 1..Len(sel.msgs)} = SnapshotMsgs
        /\ Len(sel.msgs) = Cardinality(SnapshotMsgs)
        /\ \A k, l \in 1..Len(AllChains) :
              PerfCmp(AllChains[k], AllChains[l]) > 0 =>
                  \A m \in ChainMsgs(AllChains[k]), n \in ChainMsgs(AllChains[l]) :
                      Position(sel.msgs, m) < Position(sel.msgs, n)
        /\ \A a, b \in Senders :
              (PaysMore(a, b) /\ Len(AllChains) = 2) =>
                  sel.msgs = SortBySequence(sel.snapshot[a]) \o SortBySequence(sel.snapshot[b])

\* C5 witness: two senders, the second address paying more, both returned in
\* full with the second address first
C5_Witness ==
    /\ C5_Conditions
    /\ PaysMore(2, 1)
    /\ Len(sel.msgs) >= 2
    /\ sel.msgs[1].from = 2

\* one gas limit g >= MIN_GAS for all pending messages, none of negative
\* gas_perf, more than BLOCK_GAS_LIMIT \div g messages per sender, tq = 1.0
C6_Conditions(g) ==
    /\ Returned /\ sel.tq = 100
    /\ g >= MIN_GAS
    /\ DOMAIN sel.snapshot # {}
    /\ \A m \in SnapshotMsgs : m.gas_limit = g /\ effective_premium(m, sel.base_fee) >= 0
    /\ \A a \in DOMAIN sel.snapshot : Cardinality(sel.snapshot[a]) > BLOCK_GAS_LIMIT \div g

\* C6: under these conditions select_messages returns exactly
\* BLOCK_GAS_LIMIT \div g messages
C6_PackedUntilFull ==
    \A g \in GasLimits : C6_Conditions(g) => Len(sel.msgs) = BLOCK_GAS_LIMIT \div g

\* C6 as amended: under these conditions, and when every pending message is
\* in a chain (the sender's balance covers the funds of all its messages),
\* select_messages returns exactly BLOCK_GAS_LIMIT \div g messages
C6_PackedUntilFullWhenFunded ==
    \A g \in GasLimits :
        (C6_Conditions(g) /\ Len(ConcatMsgs(AllChains)) = Cardinality(SnapshotMsgs)) =>
            Len(sel.msgs) = BLOCK_GAS_LIMIT \div g

\* C6 witness: a chain that holds more than fits was trimmed to fill the block
C6_Witness ==
    \E g \in GasLimits :
        /\ C6_Conditions(g)
        /\ Len(ConcatMsgs(AllChains)) = Cardinality(SnapshotMsgs)
        /\ \E k \in 1..Len(AllChains) : AllChains[k].gas_limit > BLOCK_GAS_LIMIT
        /\ Len(sel.msgs) = BLOCK_GAS_LIMIT \div g

\* the tipsets popped on either side of the reorg walk of the last call
Walked == WalkBack(sel.cur, sel.ts, <<>>, <<>>, {})
LeftMsgs == UNION {block_msgs[Walked.left_chain[i]] : i \in 1..Len(Walked.left_chain)}
RightMsgs == UNION {block_msgs[Walked.right_chain[i]] : i \in 1..Len(Walked.right_chain)}
SameKey(m, n) == m.from = n.from /\ m.sequence = n.sequence
Reorged == sel # NoCall /\ sel.cur # sel.ts /\ sel.status # "error"

\* C7: after a reorg walk every message of a block on the current-head side,
\* of either signature kind, is in the pending snapshot under its (sender,
\* sequence), unless a block on the target side holds the same (sender, sequence)
C7_LeftChainMessagesPending ==
    Reorged =>
        \A m \in LeftMsgs :
            (\A n \in RightMsgs : ~SameKey(m, n)) => \E x \in SnapshotMsgs : SameKey(x, m)

\* C8: no message whose (sender, sequence) is in a block on the target side of
\* the walk is in the pending snapshot or in the returned list
C8_RightChainMessagesGone ==
    Reorged =>
        \A n \in RightMsgs :
            /\ \A x \in SnapshotMsgs : ~SameKey(x, n)
            /\ Returned => \A i \in 1..Len(sel.msgs) : ~SameKey(sel.msgs[i], n)

\* C8 witness: a pending message is in a block on the target side, and the
\* call returned the pending message of the other sender
C8_Witness ==
    /\ Reorged /\ Returned
    /\ \E n \in RightMsgs : n \in UNION {sel.live[a] : a \in DOMAIN sel.live}
    /\ sel.msgs # <<>>

\* C9: for tq <= 0.84, a non-empty snapshot and at least MIN_GAS left after
\* the priority stage, select_messages returns, and what it returns is
\* merge_and_trim of the chains from the priority result and the residual
\* gas, cut at MAX_BLOCK_MSGS
C9_OptimalReturnsMergeAndTrim ==
    (sel # NoCall /\ sel.tq <= TQ_CUTOFF /\ DOMAIN sel.snapshot # {} /\ sel.prio_gas >= MIN_GAS) =>
        /\ sel.status = "ok"
        /\ sel.msgs = Truncate(merge_and_trim(sel.chains, sel.prio_result, sel.base_fee,
                                              sel.prio_gas, MIN_GAS).result)

\* C10: when every pending message comes from a priority address, the greedy
\* and the optimal path return the same list
C10_GreedyEqualsOptimalOnPriorityPool ==
    (sel # NoCall /\ SnapshotMsgs # {} /\ DOMAIN sel.snapshot \subseteq sel.priority) =>
        \A tq \in TicketQualities :
            LET other == select_messages(sel.snapshot, sel.base_fee, block_msgs, sel.ts, tq,
                                         sel.priority)
            IN  sel.status = other.status /\ sel.msgs = other.msgs
\* C11: select_messages leaves the live pending map and the current tipset as
\* they were before the call, in sync and after a reorg walk
C11_SelectMessagesReadOnly ==
    sel # NoCall => pending = sel.live /\ cur_tipset = sel.cur

\* the tipsets the walk of the last call asks the provider to load
LoadedTipsets ==
    {Parent(Walked.left_chain[i]) : i \in 1..Len(Walked.left_chain)}
        \cup {Parent(Walked.right_chain[i]) : i \in 1..Len(Walked.right_chain)}

\* C12: when the load of a parent tipset fails during the reorg walk,
\* select_messages returns an error and no message list
C12_LoadFailureReturnsError ==
    (sel # NoCall /\ LoadedTipsets \cap sel.bad # {}) =>
        sel.status = "error" /\ sel.msgs = <<>>

\* C12 witness: a parent load failed while messages were pending
C12_Witness ==
    /\ sel # NoCall /\ LoadedTipsets \cap sel.bad # {}
    /\ DOMAIN sel.live # {}
    /\ sel.status = "error"

\* the parent-tipset loads of the walk of the last call, a failed one included
Loads ==
    LET w == WalkBack(sel.cur, sel.ts, <<>>, <<>>, sel.bad)
    IN  Len(w.left_chain) + Len(w.right_chain)
EpochDistance(a, b) == IF Epoch(a) >= Epoch(b) THEN Epoch(a) - Epoch(b) ELSE Epoch(b) - Epoch(a)
\* the common ancestor of highest epoch
CommonAncestor(a, b) ==
    CHOOSE c \in Ancestors(a) \cap Ancestors(b) :
        \A d \in Ancestors(a) \cap Ancestors(b) : Epoch(d) <= Epoch(c)

\* C35 as stated: the reorg walk loads at most as many parent tipsets as the
\* epochs of the current and the target tipset differ
C35_LoadsWithinEpochDistance ==
    sel # NoCall => Loads <= EpochDistance(sel.cur, sel.ts)

\* C35: the reorg walk loads at most as many parent tipsets as the current
\* and the target tipset together are epochs above their common ancestor
C35_LoadsWithinDistanceToAncestor ==
    sel # NoCall =>
        Loads <= EpochDistance(sel.cur, CommonAncestor(sel.cur, sel.ts))
                    + EpochDistance(sel.ts, CommonAncestor(sel.cur, sel.ts))

\* C35 witness: a walk between two tipsets of one epoch loaded the parent of
\* both, and the selection returned
C35_Witness ==
    /\ Reorged
    /\ Epoch(sel.cur) = Epoch(sel.ts)
    /\ Loads = 2

\* the chains of the priority senders and of the other senders of the last call
PriorityChains ==
    ChainsOf(sel.priority \cap DOMAIN sel.snapshot, sel.snapshot, sel.base_fee, block_msgs,
             sel.ts)
GeneralChains ==
    ChainsOf(DOMAIN sel.snapshot \ sel.priority, sel.snapshot, sel.base_fee, block_msgs, sel.ts)
\* the gas limits and the minimal gas values merge_and_trim is tried with
GasLeft == 0..BLOCK_GAS_LIMIT
MinGasValues == {1, MIN_GAS}

\* C39: merge_and_trim terminates: for the chains of a call, every gas limit
\* and every minimal gas, the tail loop repeats at most once per message of
\* the chains
C39_TailLoopTerminates ==
    (sel # NoCall /\ sel.status # "error") =>
        \A cs \in {PriorityChains, GeneralChains} :
            \A g \in GasLeft, mg \in MinGasValues :
                TailIterations(cs, sel.base_fee, g, mg) <= NumMsgs(cs)

\* C39 witness: the tail loop of the general stage of a call ran twice, on a
\* chain that was valid and did not fit
C39_Witness ==
    /\ Greedy /\ Returned
    /\ sel.chains = GeneralChains
    /\ TailIterations(sel.chains, sel.base_fee, sel.prio_gas, MIN_GAS) >= 2

\* C40: no (sender, sequence) appears twice in the list select_messages
\* returns
C40_NoMessageTwice ==
    Returned =>
        \A i, j \in 1..Len(sel.msgs) : SameKey(sel.msgs[i], sel.msgs[j]) => i = j

\* C40 witness: the priority stage selected messages, the general stage
\* trimmed a chain in its tail loop and added messages of its own
C40_Witness ==
    /\ Greedy /\ Returned
    /\ sel.prio_result # <<>>
    /\ Len(sel.msgs) > Len(sel.prio_result)
    /\ sel.prio_gas >= MIN_GAS
    /\ TailIterations(sel.chains, sel.base_fee, sel.prio_gas, MIN_GAS) >= 1

\* C26: the list the greedy path returns starts with the messages the
\* priority stage selected (both cut at MAX_BLOCK_MSGS by select_messages)
C26_PriorityIsPrefix ==
    (Greedy /\ Returned) =>
        /\ Len(sel.msgs) >= Len(Truncate(sel.prio_result))
        /\ SubSeq(sel.msgs, 1, Len(Truncate(sel.prio_result))) = Truncate(sel.prio_result)

\* ----------------------------------------------- the funds-request queue
\* the callers of get_paych(from, to, amt), all for the same (from, to)
MaxCallers == 3
Callers == 1..MaxCallers
\* the amounts requested: 3, 2 and 4
Amount(c) == IF c = 1 THEN 3 ELSE IF c = 2 THEN 2 ELSE 4

\* FundsReq::new(from, to, amt), for the caller id
FundsReq(id, amt) == [id |-> id, amt |-> amt, active |-> TRUE]

\* PaychFundsRes: channel and mcid are 0 for None, err is "" for None
PaychFundsRes(channel, mcid, err) == [channel |-> channel, mcid |-> mcid, err |-> err]

\* MergeFundsReq::sum: the amounts of the active requests
RECURSIVE sum(_)
sum(reqs) ==
    IF reqs = <<>> THEN 0
    ELSE (IF reqs[1].active THEN reqs[1].amt ELSE 0) + sum(Tail(reqs))

\* create_paych(from, to, amt): the message is pushed, then the write lock
\* of the store is taken and the channel is created with create_msg set;
\* lock is the state of the store lock when the call is made, msgs the
\* messages pushed so far, and the CID of a message is its place in them
create_paych(amt, st, lock, msgs, push_ok) ==
    IF ~push_ok THEN [status |-> "err", err |-> "push failed", pushed |-> msgs, store |-> st]
    ELSE LET sent == Append(msgs, [method |-> "create", value |-> amt])
         IN  IF lock # "free" THEN [status |-> "hang", pushed |-> sent, store |-> st]
             ELSE [status |-> "ok", mcid |-> Len(sent), pushed |-> sent,
                   store |-> [ChannelInfo(0, <<>>, 0) EXCEPT !.create_msg = Len(sent),
                                                             !.pending_amount = amt]]

\* add_funds(ci, amt): the message is pushed, then the write lock of the
\* store is taken and add_funds_msg is put
add_funds(ci, amt, lock, msgs, push_ok) ==
    IF ci.channel = 0
    THEN [status |-> "err", err |-> "no address found", pushed |-> msgs, store |-> ci]
    ELSE IF ~push_ok
    THEN [status |-> "err", err |-> "push failed", pushed |-> msgs, store |-> ci]
    ELSE LET sent == Append(msgs, [method |-> "add_funds", value |-> amt])
         IN  IF lock # "free" THEN [status |-> "hang", pushed |-> sent, store |-> ci]
             ELSE [status |-> "ok", mcid |-> Len(sent), pushed |-> sent,
                   store |-> [ci EXCEPT !.pending_amount = amt, !.add_funds_msg = Len(sent)]]

\* process_task that sends an add funds message while one is pending
process_task_IgnoresPending(amt, st, msgs, io_err, push_ok) ==
    IF io_err \/ ~st.tracked
    THEN [status |-> "some", res |-> PaychFundsRes(0, 0, "channel not tracked"),
          pushed |-> msgs, store |-> st, call_err |-> ""]
    ELSE [status |-> "some", res |-> PaychFundsRes(st.channel, Len(msgs) + 1, ""),
          pushed |-> Append(msgs, [method |-> "add_funds", value |-> amt]),
          store |-> [st EXCEPT !.pending_amount = amt, !.add_funds_msg = Len(msgs) + 1],
          call_err |-> ""]

\* process_task(from, to, amt), which holds the write lock of the store from
\* its first line to its end: status is "some" with the result, "none" when
\* the queue has to wait, "hang" when the task waits for the lock it holds.
\* io_err: outbound_active_by_from_to fails with an error of the store that
\* is not ChannelNotTracked; call_err is the error create_paych or add_funds
\* returned, if one did
process_task(amt, st, msgs, io_err, push_ok) ==
    IF io_err \/ ~st.tracked
    THEN IF ~io_err
         THEN [status |-> "some", res |-> PaychFundsRes(0, 0, "channel not tracked"),
               pushed |-> msgs, store |-> st, call_err |-> ""]
         ELSE LET mcid == create_paych(amt, st, "write", msgs, push_ok)
              IN  IF mcid.status = "hang"
                  THEN [status |-> "hang", pushed |-> mcid.pushed, store |-> mcid.store,
                        call_err |-> ""]
                  ELSE IF mcid.status = "err"
                  THEN [status |-> "some", res |-> PaychFundsRes(0, 0, mcid.err),
                        pushed |-> mcid.pushed, store |-> mcid.store, call_err |-> mcid.err]
                  ELSE [status |-> "some", res |-> PaychFundsRes(0, mcid.mcid, ""),
                        pushed |-> mcid.pushed, store |-> mcid.store, call_err |-> ""]
    ELSE IF st.create_msg # 0
    THEN [status |-> "none", pushed |-> msgs, store |-> st, call_err |-> ""]
    ELSE IF st.add_funds_msg # 0
    THEN [status |-> "none", pushed |-> msgs, store |-> st, call_err |-> ""]
    ELSE LET mcid == add_funds(st, amt, "write", msgs, push_ok)
         IN  IF mcid.status = "hang"
             THEN [status |-> "hang", pushed |-> mcid.pushed, store |-> mcid.store,
                   call_err |-> ""]
             ELSE IF mcid.status = "err"
             THEN [status |-> "none", pushed |-> mcid.pushed, store |-> mcid.store,
                   call_err |-> mcid.err]
             ELSE [status |-> "some", res |-> PaychFundsRes(st.channel, mcid.mcid, ""),
                   pushed |-> mcid.pushed, store |-> mcid.store, call_err |-> ""]

NoRes == PaychFundsRes(0, 0, "")
\* a process_queue task: its place in the code, the merged request, the
\* amount and the result of process_task; io_err and call_err record what
\* the store answered to the lookup and what create_paych or add_funds
\* returned
Task(pc, merged, amt, res) ==
    [pc |-> pc, merged |-> merged, amt |-> amt, res |-> res, io_err |-> FALSE, call_err |-> ""]

\* get_paych(from, to, amt) up to the wait on the promise: the request is
\* pushed on the queue and a process_queue task is spawned
GetPaych(c) ==
    /\ c \notin DOMAIN promises
    /\ funds_req_queue' = Append(funds_req_queue, FundsReq(c, Amount(c)))
    /\ tasks' = Append(tasks, Task("filter", <<>>, 0, NoRes))
    /\ promises' = promises @@ (c :> <<>>)
    /\ UNCHANGED <<store, store_lock, paych_state, acc, pushed, cancelled, watcher>>
    /\ UNCHANGED mvars

\* filter_queue that retains every request
FilterQueue_KeepsCancelled(t) ==
    /\ t \in DOMAIN tasks /\ tasks[t].pc = "filter"
    /\ tasks' = [tasks EXCEPT ![t].pc = "merge"]
    /\ UNCHANGED <<store, store_lock, paych_state, acc, funds_req_queue, pushed, promises,
                   cancelled, watcher>>
    /\ UNCHANGED mvars

\* process_queue, filter_queue: the cancelled requests leave the queue
FilterQueue(t) ==
    /\ t \in DOMAIN tasks /\ tasks[t].pc = "filter"
    /\ funds_req_queue' = SelectSeq(funds_req_queue, LAMBDA r : r.active)
    /\ tasks' = [tasks EXCEPT ![t].pc = "merge"]
    /\ UNCHANGED <<store, store_lock, paych_state, acc, pushed, promises, cancelled, watcher>>
    /\ UNCHANGED mvars

\* process_queue under the read lock of the queue: return on an empty queue
\* or a zero sum, else merge all queued requests into one
MergeQueue(t) ==
    /\ t \in DOMAIN tasks /\ tasks[t].pc = "merge"
    /\ tasks' = IF funds_req_queue = <<>> \/ sum(funds_req_queue) = 0
                THEN [tasks EXCEPT ![t].pc = "done"]
                ELSE [tasks EXCEPT ![t] = Task("task", funds_req_queue, sum(funds_req_queue),
                                              NoRes)]
    /\ UNCHANGED <<store, store_lock, paych_state, acc, funds_req_queue, pushed, promises,
                   cancelled, watcher>>
    /\ UNCHANGED mvars

\* process_queue, the call of process_task
ProcessTask(t, io_err, push_ok) ==
    LET r == process_task(IF t \in DOMAIN tasks THEN tasks[t].amt ELSE 0, store, pushed,
                          io_err, push_ok)
    IN  /\ t \in DOMAIN tasks /\ tasks[t].pc = "task" /\ store_lock = "free"
        /\ store' = r.store
        /\ pushed' = r.pushed
        /\ store_lock' = IF r.status = "hang" THEN "write" ELSE "free"
        /\ tasks' = [tasks EXCEPT
                        ![t].pc = IF r.status = "hang" THEN "hung"
                                  ELSE IF r.status = "none" THEN "done" ELSE "complete",
                        ![t].res = IF r.status = "some" THEN r.res ELSE @,
                        ![t].io_err = io_err,
                        ![t].call_err = r.call_err]
        /\ UNCHANGED <<paych_state, acc, funds_req_queue, promises, cancelled, watcher>>
        /\ UNCHANGED mvars

\* process_queue, the end: the queue is cleared and the result is published
\* to every request of the merged one; the promise of a cancelled request is
\* closed and takes no result
CompleteMerged(t) ==
    /\ t \in DOMAIN tasks /\ tasks[t].pc = "complete"
    /\ funds_req_queue' = <<>>
    /\ promises' = [c \in DOMAIN promises |->
                        IF /\ \E i \in 1..Len(tasks[t].merged) : tasks[t].merged[i].id = c
                           /\ c \notin cancelled
                        THEN Append(promises[c], tasks[t].res)
                        ELSE promises[c]]
    /\ tasks' = [tasks EXCEPT ![t].pc = "done"]
    /\ UNCHANGED <<store, store_lock, paych_state, acc, pushed, cancelled, watcher>>
    /\ UNCHANGED mvars

\* no channel is tracked, nothing is queued
InitFunds ==
    /\ MpoolIdle
    /\ PaychIdle

\* one process_queue task per get_paych call
TaskIds == 1..MaxCallers

NextFunds ==
    \/ \E c \in Callers : GetPaych(c)
    \/ \E t \in TaskIds : FilterQueue(t)
    \/ \E t \in TaskIds : MergeQueue(t)
    \/ \E t \in TaskIds, io_err \in BOOLEAN, push_ok \in BOOLEAN : ProcessTask(t, io_err, push_ok)
    \/ \E t \in TaskIds : CompleteMerged(t)

SpecFunds == InitFunds /\ [][NextFunds]_vars

\* ------------------------------------- the queue over a persisted channel
\* the address the chain answers for the create message, and the CID of a
\* message that was pushed before the accessor was built
RobustAddr == 12
PendingCid == 9
\* the get_paych callers of this universe: the calls for 3 and for 2
MaxQueued == 2

\* the channel infos the store can hold when the accessor is built: a
\* channel whose create message is pending, a channel on chain, and a
\* channel on chain with an add funds message pending
PersistedChannels ==
    {[ChannelInfo(0, <<>>, 0) EXCEPT !.create_msg = PendingCid, !.pending_amount = 3],
     [ChannelInfo(Ch, <<>>, 0) EXCEPT !.amount = 2],
     [ChannelInfo(Ch, <<>>, 0) EXCEPT !.add_funds_msg = PendingCid, !.amount = 2,
                                      !.pending_amount = 3]}

\* a chain-watcher task: op is the function it runs, pc its place in it
\* ("spawned", "waiting" in wait_for_message, "completing" when it spawned
\* msg_wait_completed, "done"), locks the locks it holds, exit what
\* wait_for_message answered ("ok", "failed" for another exit code,
\* "wait_err" for an error), ci the channel_info it works on, completed the
\* err argument msg_wait_completed was called with ("not called", "none"),
\* saved whether save_msg_result ran, panicked whether the task panicked
Watcher(op, ci) ==
    [op |-> op, pc |-> "spawned", locks |-> {}, exit |-> "", ci |-> ci, before |-> ci,
     completed |-> "not called", saved |-> FALSE, panicked |-> FALSE]

\* the task that create_paych or add_funds spawned for the pending message
\* of the channel info st
WatcherOf(st) ==
    IF st.create_msg # 0 THEN Watcher("wait_paych_create_msg", st)
    ELSE IF st.add_funds_msg # 0 THEN Watcher("wait_add_funds_msg", st)
    ELSE NoWatcher

\* both watchers, first lines: the read lock of the state manager is taken
\* and its guard lives to the end of the function; wait_for_message is
\* awaited under it
StartWait ==
    /\ watcher # NoWatcher /\ watcher.pc = "spawned"
    /\ watcher' = [watcher EXCEPT !.pc = "waiting", !.locks = {"sm.read"}]
    /\ UNCHANGED <<store, store_lock, paych_state, acc, funds_req_queue, tasks, pushed,
                   promises, cancelled>>
    /\ UNCHANGED mvars

\* both watchers: wait_for_message answers an error and the function
\* returns it
WaitFails ==
    /\ watcher # NoWatcher /\ watcher.pc = "waiting"
    /\ watcher' = [watcher EXCEPT !.pc = "done", !.locks = {}, !.exit = "wait_err"]
    /\ UNCHANGED <<store, store_lock, paych_state, acc, funds_req_queue, tasks, pushed,
                   promises, cancelled>>
    /\ UNCHANGED mvars

\* wait_paych_create_msg that leaves create_msg set
wait_paych_create_msg_KeepsCreateMsg(st, exit_ok) ==
    IF ~exit_ok THEN NotTracked
    ELSE [st EXCEPT !.channel = RobustAddr, !.amount = st.pending_amount, !.pending_amount = 0]

\* wait_paych_create_msg(ch_id, mcid), from the answer of wait_for_message
\* on: under the write lock of the store, a failed message removes the
\* channel (and by_channel_id then fails); else the channel gets its robust
\* address, create_msg is cleared and the channel info is put
wait_paych_create_msg(st, exit_ok) ==
    IF ~exit_ok THEN NotTracked
    ELSE [st EXCEPT !.channel = RobustAddr, !.amount = st.pending_amount, !.pending_amount = 0,
                    !.create_msg = 0]

\* the task that waits for the create message of the channel, from the
\* answer of wait_for_message to its end
WaitPaychCreateMsg(exit_ok) ==
    /\ watcher # NoWatcher /\ watcher.op = "wait_paych_create_msg" /\ watcher.pc = "waiting"
    /\ store.tracked /\ store.create_msg # 0 /\ store_lock = "free"
    /\ store' = wait_paych_create_msg(store, exit_ok)
    /\ watcher' = [watcher EXCEPT !.pc = "done", !.locks = {},
                                  !.exit = IF exit_ok THEN "ok" ELSE "failed"]
    /\ UNCHANGED <<store_lock, paych_state, acc, funds_req_queue, tasks, pushed, promises,
                   cancelled>>
    /\ UNCHANGED mvars

\* wait_add_funds_msg(channel_info, mcid), from the answer of
\* wait_for_message on: the fields of channel_info, the caller's copy of the
\* channel info, are set; nothing is put to the store
wait_add_funds_msg(channel_info, exit_ok) ==
    IF ~exit_ok
    THEN [channel_info EXCEPT !.pending_amount = 0, !.add_funds_msg = 0]
    ELSE [channel_info EXCEPT !.amount = @ + channel_info.pending_amount,
                              !.pending_amount = 0, !.add_funds_msg = 0]

\* the task that waits for the add funds message of the channel: after an
\* exit code that is not OK it returns the error, else it spawns
\* msg_wait_completed
WaitAddFundsMsg(exit_ok) ==
    /\ watcher # NoWatcher /\ watcher.op = "wait_add_funds_msg" /\ watcher.pc = "waiting"
    /\ watcher' = [watcher EXCEPT !.pc = IF exit_ok THEN "completing" ELSE "done",
                                  !.locks = {},
                                  !.exit = IF exit_ok THEN "ok" ELSE "failed",
                                  !.ci = wait_add_funds_msg(watcher.ci, exit_ok)]
    /\ UNCHANGED <<store, store_lock, paych_state, acc, funds_req_queue, tasks, pushed,
                   promises, cancelled>>
    /\ UNCHANGED mvars

\* msg_wait_completed(mcid, err), err "" for None: the result is saved, then
\* fire_msg_complete(mcid, err.unwrap()) panics when err is None; with an
\* error a process_queue task is spawned when the queue is not empty
msg_wait_completed(err, queue) ==
    [saved |-> TRUE, panicked |-> err = "", respawn |-> err # "" /\ queue # <<>>]

\* the msg_wait_completed task that wait_add_funds_msg spawned
MsgWaitCompleted ==
    /\ watcher # NoWatcher /\ watcher.pc = "completing" /\ store_lock = "free"
    /\ \E r \in {msg_wait_completed("", funds_req_queue)} :
            /\ watcher' = [watcher EXCEPT !.pc = "done", !.completed = "none",
                                          !.saved = r.saved, !.panicked = r.panicked]
            /\ tasks' = IF r.respawn THEN Append(tasks, Task("filter", <<>>, 0, NoRes))
                        ELSE tasks
    /\ UNCHANGED <<store, store_lock, paych_state, acc, funds_req_queue, pushed, promises,
                   cancelled>>
    /\ UNCHANGED mvars

\* the caller marks its request inactive and closes its promise
Cancel(c) ==
    /\ c \in DOMAIN promises /\ c \notin cancelled /\ promises[c] = <<>>
    /\ cancelled' = cancelled \cup {c}
    /\ funds_req_queue' = [i \in 1..Len(funds_req_queue) |->
                                IF funds_req_queue[i].id = c
                                THEN [funds_req_queue[i] EXCEPT !.active = FALSE]
                                ELSE funds_req_queue[i]]
    /\ UNCHANGED <<store, store_lock, paych_state, acc, tasks, pushed, promises, watcher>>
    /\ UNCHANGED mvars

InitQueue ==
    /\ MpoolIdle
    /\ store \in PersistedChannels
    /\ store_lock = "free"
    /\ paych_state = [balance |-> 0, to_send |-> 0, lane_states |-> <<>>]
    /\ acc = NoAcc
    /\ funds_req_queue = <<>>
    /\ tasks = <<>>
    /\ pushed = <<>>
    /\ promises = <<>>
    /\ cancelled = {}
    /\ watcher = WatcherOf(store)

NextQueue ==
    \/ \E c \in 1..MaxQueued : GetPaych(c)
    \/ \E c \in 1..MaxQueued : Cancel(c)
    \/ \E t \in TaskIds : FilterQueue(t)
    \/ \E t \in TaskIds : MergeQueue(t)
    \/ \E t \in TaskIds, io_err \in BOOLEAN, push_ok \in BOOLEAN : ProcessTask(t, io_err, push_ok)
    \/ \E t \in TaskIds : CompleteMerged(t)
    \/ StartWait
    \/ WaitFails
    \/ \E exit_ok \in BOOLEAN : WaitPaychCreateMsg(exit_ok)
    \/ \E exit_ok \in BOOLEAN : WaitAddFundsMsg(exit_ok)
    \/ MsgWaitCompleted

SpecQueue == InitQueue /\ [][NextQueue]_vars

\* every spawned task is scheduled: a process_queue task and a watcher that
\* can take a step eventually take one, and the awaited message reaches
\* confidence
FairQueue ==
    /\ \A t \in TaskIds :
            /\ WF_vars(FilterQueue(t)) /\ WF_vars(MergeQueue(t)) /\ WF_vars(CompleteMerged(t))
            /\ WF_vars(\E io_err \in BOOLEAN, push_ok \in BOOLEAN : ProcessTask(t, io_err, push_ok))
    /\ WF_vars(StartWait)
    /\ WF_vars(\E exit_ok \in BOOLEAN : WaitPaychCreateMsg(exit_ok))
    /\ WF_vars(\E exit_ok \in BOOLEAN : WaitAddFundsMsg(exit_ok))
    /\ WF_vars(MsgWaitCompleted)

SpecQueueFair == InitQueue /\ [][NextQueue]_vars /\ FairQueue

\* ------------------------------------------------- properties: vouchers
AddCalled == acc # NoAcc /\ acc.op = "add_voucher"
\* the re-add of a voucher the store holds already
ReAdded == AddCalled /\ by_address(acc.before, acc.ch) /\ has_voucher(acc.before, acc.sv) # 0
StoredProof == acc.before.vouchers[has_voucher(acc.before, acc.sv)].proof
\* what lane_state reports for the channel info st
LaneStateOf(st) == ApplyVouchers(paych_state.lane_states, st.vouchers, 1)

\* C14: add_voucher with a stored voucher and the same or an empty proof
\* returns 0 and leaves the channel info as it was; with another non-empty
\* proof it returns 1 and replaces only the proof of that voucher
C14_ReAddIdempotent ==
    ReAdded =>
        IF acc.proof = <<>> \/ acc.proof = StoredProof
        THEN acc.status = "ok" /\ acc.value = 0 /\ store = acc.before
        ELSE /\ acc.status = "ok" /\ acc.value = 1
             /\ store = [acc.before EXCEPT
                            !.vouchers[has_voucher(acc.before, acc.sv)].proof = acc.proof]

\* C14 witness: a stored voucher was re-added with another non-empty proof
C14_Witness ==
    ReAdded /\ acc.proof # <<>> /\ acc.proof # StoredProof /\ acc.value = 1

\* C15: when add_voucher returns an error the store holds the channel info
\* it held before the call
C15_FailedAddLeavesStore ==
    (AddCalled /\ acc.status = "err") => store = acc.before

\* C15 witness: add_voucher failed on a channel that holds a voucher
C15_Witness ==
    /\ AddCalled /\ acc.status = "err" /\ acc.ch = Ch
    /\ acc.before.vouchers # <<>>

\* C16: the vouchers stored for one lane have, in stored order, strictly
\* increasing nonce and non-decreasing amount
C16_LaneVouchersOrdered ==
    store.tracked =>
        \A i, j \in 1..Len(store.vouchers) :
            (i < j /\ store.vouchers[i].voucher.lane = store.vouchers[j].voucher.lane) =>
                /\ store.vouchers[i].voucher.nonce < store.vouchers[j].voucher.nonce
                /\ store.vouchers[i].voucher.amount <= store.vouchers[j].voucher.amount

\* C17: in the stored channel info next_lane is above the lane of every
\* stored voucher
C17_NextLaneAboveVouchers ==
    store.tracked =>
        \A i \in 1..Len(store.vouchers) : store.next_lane > store.vouchers[i].voucher.lane

RECURSIVE SumRedeemed(_, _)
SumRedeemed(lane_states, S) ==
    IF S = {} THEN 0
    ELSE LET l == CHOOSE x \in S : TRUE
         IN  lane_states[l].redeemed + SumRedeemed(lane_states, S \ {l})

RedeemedWithVoucher(lane_states, sv) ==
    IF sv.lane \in DOMAIN lane_states
    THEN IF sv.nonce > lane_states[sv.lane].nonce
         THEN SumRedeemed(lane_states, DOMAIN lane_states \ {sv.lane}) + sv.amount
         ELSE SumRedeemed(lane_states, DOMAIN lane_states)
    ELSE SumRedeemed(lane_states, DOMAIN lane_states) + sv.amount

\* C19: check_voucher_valid rejects every voucher for which the total
\* redeemed with the voucher plus to_send exceeds the actor balance
C19_RejectsOverBalance ==
    (acc # NoAcc /\ acc.op = "check_voucher_valid"
        /\ RedeemedWithVoucher(LaneStateOf(acc.before), acc.sv) + paych_state.to_send
                > paych_state.balance)
        => acc.status = "err"

\* C20: for a voucher that is not stored and passes check_voucher_valid,
\* add_voucher returns the voucher's amount minus the redeemed amount of its
\* lane, and it rejects the voucher when that delta is below min_delta
C20_AddReturnsDelta ==
    (AddCalled /\ by_address(acc.before, acc.ch) /\ has_voucher(acc.before, acc.sv) = 0
        /\ check_voucher_valid(acc.ch, acc.sv, acc.before, paych_state, "free").status = "ok")
        => LET delta == acc.sv.amount - LaneStateOf(acc.before)[acc.sv.lane].redeemed
           IN  IF delta < acc.min_delta
               THEN acc.status = "err"
               ELSE acc.status = "ok" /\ acc.value = delta

\* the voucher of the last call is for a lane without lane state on chain and
\* without stored voucher, is well signed, has no merges, a nonce of at least
\* 1 and a positive amount that the funds of the channel cover
OnNewLane ==
    /\ acc # NoAcc /\ acc.op \in {"check_voucher_valid", "add_voucher"}
    /\ by_address(acc.before, acc.ch) /\ acc.sv.channel_addr = acc.ch
    /\ acc.sv.lane \notin DOMAIN LaneStateOf(acc.before)
    /\ acc.sv.signature = "good" /\ acc.sv.merges = 0
    /\ acc.sv.nonce >= 1 /\ acc.sv.amount > 0
    /\ RedeemedWithVoucher(LaneStateOf(acc.before), acc.sv) + paych_state.to_send
            <= paych_state.balance

\* C38: check_voucher_valid accepts a valid first voucher of a lane that is
\* neither on chain nor in the store
C38_NewLaneVoucherAccepted ==
    (OnNewLane /\ acc.op = "check_voucher_valid") => acc.status = "ok"

\* C36: no accessor call waits for the store lock that its own task holds:
\* create_voucher and add_voucher, run alone, complete and leave the store
\* lock free
C36_NoSelfDeadlock ==
    (acc # NoAcc /\ acc.op \in {"create_voucher", "add_voucher"}) =>
        acc.status # "hang" /\ store_lock = "free"

CreateCalled == acc # NoAcc /\ acc.op = "create_voucher"
\* the voucher create_voucher is to return for the draft acc.sv
CreatedVoucher ==
    [acc.sv EXCEPT !.channel_addr = Ch,
                   !.nonce = next_sequence_for_lane(acc.before, acc.sv.lane),
                   !.signature = "good"]

\* C21: create_voucher on the tracked channel, when the funds of the channel
\* cover the voucher, returns the draft with channel_addr set to the channel,
\* nonce set to next_sequence_for_lane and a good signature, and the store
\* then holds that voucher with an empty proof
C21_CreateVoucherSignsAndStores ==
    (CreateCalled /\ by_address(acc.before, Ch)
        /\ RedeemedWithVoucher(LaneStateOf(acc.before), CreatedVoucher) + paych_state.to_send
                <= paych_state.balance)
        => /\ acc.status = "ok"
           /\ acc.value = CreatedVoucher
           /\ has_voucher(store, CreatedVoucher) # 0
           /\ store.vouchers[has_voucher(store, CreatedVoucher)].proof = <<>>

SubmitCalled == acc # NoAcc /\ acc.op = "submit_voucher" /\ by_address(acc.before, Ch)
Submitted(st) == {st.vouchers[i].voucher : i \in {j \in 1..Len(st.vouchers) : st.vouchers[j].submitted}}
LowerOnLane(st, sv) ==
    {st.vouchers[i].voucher : i \in {j \in 1..Len(st.vouchers) :
        st.vouchers[j].voucher.lane = sv.lane /\ st.vouchers[j].voucher.nonce < sv.nonce}}

\* C22: submit_voucher rejects a voucher that is marked submitted; when the
\* call and the push succeed it returns the CID and the voucher and the
\* stored vouchers of its lane with a lower nonce are marked submitted; when
\* the call or the push fails the store holds what it held before
C22_SubmitMarksOnlyOnPush ==
    SubmitCalled =>
        IF was_voucher_submitted(acc.before, acc.sv)
        THEN acc.status = "err" /\ acc.err = "already submitted" /\ store = acc.before
        ELSE IF acc.call_ok /\ acc.push_ok
        THEN /\ acc.status = "ok"
             /\ {acc.sv} \cup LowerOnLane(acc.before, acc.sv) \subseteq Submitted(store)
        ELSE acc.status = "err" /\ store = acc.before

\* C22 witness: a submitted voucher was pushed while the store held a
\* voucher of its lane with a lower nonce
C22_Witness ==
    /\ SubmitCalled /\ acc.status = "ok"
    /\ LowerOnLane(acc.before, acc.sv) # {}
    /\ acc.sv \in Submitted(store)

\* ---------------------------------------------- properties: funds queue
\* every caller has called get_paych and no process_queue task can step
AllServed ==
    /\ DOMAIN promises = Callers
    /\ \A t \in 1..Len(tasks) : tasks[t].pc \in {"done", "hung"}

\* the store and the message pool answered every call without a failure of
\* their own
NoOutage ==
    /\ \A t \in 1..Len(tasks) : tasks[t].pc # "hung"
    /\ \A c \in DOMAIN promises :
        \A i \in 1..Len(promises[c]) : promises[c][i].err # "push failed"

\* C13: once the calls for 3, 2 and 4 are served, exactly one create message
\* was pushed, its value is 9, and every caller got its CID
C13_OneCreateForAll ==
    (AllServed /\ NoOutage) =>
        /\ Len(pushed) = 1
        /\ pushed[1].method = "create" /\ pushed[1].value = 9
        /\ \A c \in Callers :
            promises[c] # <<>> /\ promises[c][1].mcid = 1 /\ promises[c][1].err = ""

\* the process_queue runs that have read the queue and have neither
\* completed nor paused the merged request
Progressing == {t \in DOMAIN tasks : tasks[t].pc \in {"task", "complete"}}

\* C27: at most one process_queue run is between reading the queue and
\* completing or pausing the merged request
C27_OneQueueRunAtATime == Cardinality(Progressing) <= 1

\* C28: when process_task has found no channel tracked, it has pushed a
\* create message for the merged amount, its result carries the CID of that
\* message, no channel address and no error, and the store holds a channel
\* with create_msg set to that CID
C28_NoChannelCreates ==
    \A t \in DOMAIN tasks :
        (tasks[t].pc = "complete" /\ ~tasks[t].io_err) =>
            /\ tasks[t].res.mcid # 0 /\ tasks[t].res.channel = 0 /\ tasks[t].res.err = ""
            /\ tasks[t].res.mcid \in DOMAIN pushed
            /\ pushed[tasks[t].res.mcid] = [method |-> "create", value |-> tasks[t].amt]
            /\ store.tracked /\ store.create_msg = tasks[t].res.mcid

\* the process_queue run t called process_task for its merged request
Processed(t) == tasks[t].merged # <<>> /\ tasks[t].pc # "task"
InMerged(t, c) == \E i \in 1..Len(tasks[t].merged) : tasks[t].merged[i].id = c

\* C37: every funds request receives at most one result, and no request is
\* in the merged requests of two process_queue runs that both called
\* process_task
C37_AtMostOneResult ==
    /\ \A c \in DOMAIN promises : Len(promises[c]) <= 1
    /\ \A t1, t2 \in DOMAIN tasks :
            (t1 # t2 /\ Processed(t1) /\ Processed(t2)) =>
                \A c \in DOMAIN promises : ~(InMerged(t1, c) /\ InMerged(t2, c))

Queued(c) == \E i \in 1..Len(funds_req_queue) : funds_req_queue[i].id = c

\* C30: a request to which no result was published is in the queue
C30_LateRequestKept ==
    \A c \in DOMAIN promises : promises[c] = <<>> => Queued(c)

\* ------------------------------- properties: queue over a persisted channel
\* the results published to caller c
Results(c) == {promises[c][i] : i \in 1..Len(promises[c])}
MergedIds(t) == {tasks[t].merged[i].id : i \in 1..Len(tasks[t].merged)}

\* C23: when create_paych or add_funds returned an error to process_task,
\* the run completes the merged request: a result with that error is
\* published to every request of the merge that was not cancelled
C23_ErrorIsPublished ==
    \A t \in DOMAIN tasks :
        tasks[t].call_err # "" =>
            \/ tasks[t].pc = "complete"
            \/ /\ tasks[t].pc = "done"
               /\ \A c \in MergedIds(t) \ cancelled :
                    PaychFundsRes(0, 0, tasks[t].call_err) \in Results(c)

Pending(st) == st.tracked /\ (st.create_msg # 0 \/ st.add_funds_msg # 0)

\* C24: a channel info in the store has exactly one of channel and
\* create_msg set, and a channel info with create_msg set changes only by
\* leaving the store or by getting its channel address with create_msg
\* cleared
C24_CreateMsgXorChannel ==
    /\ [](store.tracked => ((store.channel # 0) # (store.create_msg # 0)))
    /\ [][(store.tracked /\ store.create_msg # 0 /\ store' # store)
            => \/ store' = NotTracked
               \/ store'.channel # 0 /\ store'.create_msg = 0]_vars

\* C24 witness: the create message of the persisted channel was confirmed
C24_Witness == store.tracked /\ store.channel = RobustAddr /\ store.create_msg = 0

\* the sum of the amounts of the requests of reqs that are active
RECURSIVE SumOver(_, _)
SumOver(reqs, I) ==
    IF I = {} THEN 0
    ELSE LET i == CHOOSE x \in I : TRUE
         IN  reqs[i].amt + SumOver(reqs, I \ {i})
SumActive(reqs) == SumOver(reqs, {i \in 1..Len(reqs) : reqs[i].active})

\* C25: the amount of a merged request is the sum of the amounts of its
\* requests that were active when it was formed, filter_queue leaves in the
\* queue the active requests and no other, and no result is published to a
\* cancelled request
C25_MergeSumPreserving ==
    /\ [](/\ \A t \in DOMAIN tasks :
                tasks[t].merged # <<>> => tasks[t].amt = SumActive(tasks[t].merged)
          /\ \A c \in cancelled : promises[c] = <<>>)
    /\ [][\A t \in DOMAIN tasks :
            (tasks[t].pc = "filter" /\ tasks'[t].pc = "merge")
                => /\ \A i \in 1..Len(funds_req_queue') : funds_req_queue'[i].active
                   /\ SumActive(funds_req_queue') = SumActive(funds_req_queue)]_vars

\* C25 witness: a request was cancelled and dropped, and the requests left
\* were merged without it
C25_Witness ==
    \E t \in DOMAIN tasks, c \in cancelled :
        /\ tasks[t].pc = "task" /\ c \notin MergedIds(t) /\ ~Queued(c)
        /\ tasks[t].amt = SumActive(funds_req_queue)

\* C29: a process_task call that finds the channel with create_msg or
\* add_funds_msg pending returns None: no message is pushed, no result is
\* published, the channel info and the queue stay as they were
C29_PendingPausesQueue ==
    [][\A t \in DOMAIN tasks :
        (tasks[t].pc = "task" /\ tasks'[t].pc # "task" /\ ~tasks'[t].io_err /\ Pending(store))
            => /\ tasks'[t].pc = "done"
               /\ pushed' = pushed /\ promises' = promises
               /\ store' = store /\ funds_req_queue' = funds_req_queue]_vars

\* C29 witness: a run was paused on a pending message with its requests
\* left in the queue
C29_Witness ==
    \E t \in DOMAIN tasks :
        /\ tasks[t].pc = "done" /\ tasks[t].merged # <<>> /\ tasks[t].res = NoRes
        /\ ~tasks[t].io_err /\ tasks[t].call_err = ""
        /\ Pending(store) /\ MergedIds(t) \subseteq {funds_req_queue[i].id : i \in 1..Len(funds_req_queue)}
        /\ pushed = <<>>

\* the request of caller c is active and queued while a message is pending
Paused(c) ==
    /\ c \in DOMAIN promises /\ c \notin cancelled /\ promises[c] = <<>>
    /\ Queued(c) /\ Pending(store)
\* a result was published to caller c, or the caller cancelled
Served(c) == c \in DOMAIN promises /\ (promises[c] # <<>> \/ c \in cancelled)

\* a process_queue run waits for the store lock it holds, the store failed
\* on a lookup, or create_paych or add_funds returned an error
Disturbed ==
    \E t \in DOMAIN tasks : tasks[t].pc = "hung" \/ tasks[t].io_err \/ tasks[t].call_err # ""

\* the wait for the message failed: it did not reach confidence
WaitFailed == watcher # NoWatcher /\ watcher.exit = "wait_err"

\* C31: with every spawned task scheduled, an active request that is queued
\* while a create or add funds message is pending eventually gets a result
\* once the message reached confidence (unless the wait fails, a run hangs
\* on the store lock, the store fails or a push fails)
C31_PausedRequestServed ==
    \A c \in 1..MaxQueued : Paused(c) ~> (Served(c) \/ WaitFailed \/ Disturbed)

AddFundsWatched == watcher # NoWatcher /\ watcher.op = "wait_add_funds_msg"
CreateWatched == watcher # NoWatcher /\ watcher.op = "wait_paych_create_msg"
\* the watcher and the msg_wait_completed task it spawned have ended
Ended == watcher.pc = "done"

\* C32: after an add funds message reached confidence with exit code OK, the
\* channel info in the store has the pending amount added to amount, no
\* pending amount and no add_funds_msg
C32_AddFundsApplied ==
    (AddFundsWatched /\ watcher.exit = "ok") =>
        /\ store.tracked
        /\ store.amount = watcher.before.amount + watcher.before.pending_amount
        /\ store.pending_amount = 0
        /\ store.add_funds_msg = 0

\* C33: after a create or add funds message ended with another exit code, or
\* the wait for it failed, the store holds no pending fields of it (no
\* channel at all on the create path) and msg_wait_completed was called
\* with the error
C33_FailureReverted ==
    (watcher # NoWatcher /\ Ended /\ watcher.exit \in {"failed", "wait_err"}) =>
        /\ CreateWatched => ~store.tracked
        /\ AddFundsWatched =>
                store.tracked /\ store.pending_amount = 0 /\ store.add_funds_msg = 0
        /\ watcher.completed = "error"

\* C34: a watcher that waits for message confidence holds no lock
C34_WaitsWithoutLock ==
    (watcher # NoWatcher /\ watcher.pc = "waiting") => watcher.locks = {}
====
